---- MODULE Spec2Model ----
(***************************************************************************)
(* Coastline geometry pipeline of Python_SSCOFS/coastline_tools:           *)
(*   stitch_coastline.py    EndpointClusterer, stitch_lines                *)
(*   coastline_pipeline.py  clip, simplify, split, bbox, feature emitter   *)
(*                                                                         *)
(* Numbers.  The code computes in floats; the model computes exactly.      *)
(* A point is a triple <<a, b, d>> standing for (a/d, b/d), d > 0, kept    *)
(* in lowest terms so that equal points are equal triples.  Input          *)
(* vertices have d = 1; only cluster centroids (means) have d > 1.         *)
(* Ids and indices are 1-based here (Python's id k is k + 1), and the      *)
(* sentinel best_id = -1 is 0.                                             *)
(***************************************************************************)
EXTENDS Integers, Sequences, FiniteSets, TLC

(***************************************************************************)
(* Bounds of the model.                                                    *)
(***************************************************************************)
MaxX == 3
MaxY == 1
MaxTol == 2
MaxAssigns == 3
MaxLines == 3
MaxEnd == 2
SplitSteps == 10
MaxChunkSteps == 4
MaxEmitLines == 2
MaxClipLines == 2
MaxSimX == 4
MaxSimLen == 5
MaxFeatures == 2
MaxFilterLines == 3
MaxMinLen == 3
MaxMainFeatures == 2
MaxCallLines == 3

VARIABLES clusterer, calls, stitch, split, emit, clip, simplify, filter, ingest,
          main

vars == <<clusterer, calls, stitch, split, emit, clip, simplify, filter, ingest,
         main>>

(***************************************************************************)
(* Arithmetic helpers.                                                     *)
(***************************************************************************)
Abs(n) == IF n < 0 THEN -n ELSE n

RECURSIVE Gcd(_, _)
Gcd(a, b) == IF b = 0 THEN Abs(a) ELSE Gcd(b, a % b)

\* Python 3 round() on the quotient p / q, q > 0: round half to even.
PyRound(p, q) ==
    LET f == p \div q
        r == p - f * q
    IN  IF 2 * r < q THEN f
        ELSE IF 2 * r > q THEN f + 1
        ELSE IF f % 2 = 0 THEN f ELSE f + 1

\* The point (a/d, b/d) in lowest terms.
Norm(p) ==
    LET g == Gcd(Gcd(p[1], p[2]), p[3])
    IN  <<p[1] \div g, p[2] \div g, p[3] \div g>>

(***************************************************************************)
(* _get_utm_transformers: the pyproj pair (fwd, inv).  The library is not  *)
(* part of the repository; over the few metres the model spans the         *)
(* projection is taken to be the translation that puts metric (0, 0) at    *)
(* lon -123, lat 47, with one unit of lon/lat equal to one metre.          *)
(***************************************************************************)
fwd(p) == <<p[1] + 123 * p[3], p[2] - 47 * p[3], p[3]>>

inv(m) == <<m[1] - 123 * m[3], m[2] + 47 * m[3], m[3]>>

\* The lon/lat vertex whose projection is the metric grid point (x, y).
LonLatAt(x, y) == inv(<<x, y, 1>>)

\* Endpoints offered to the clusterer: all vertices of the metric grid.
Grid == {LonLatAt(x, y) : x \in 0..MaxX, y \in 0..MaxY}

SnapTols == 1..MaxTol

(***************************************************************************)
(* EndpointClusterer                                                       *)
(*   tol            snap tolerance; the cell side is the same number       *)
(*   centers        centers[cid] = <<sx, sy, cnt>>: centroid (sx/cnt,      *)
(*                  sy/cnt) and count                                      *)
(*   buckets        bucket key -> list of cluster ids                      *)
(*   center_bucket  centers' current bucket key, by cluster id             *)
(***************************************************************************)
BucketKeys == (-1..(MaxX + 1)) \X (-1..(MaxY + 1))

NewClusterer(tolerance_m) ==
    [tol |-> tolerance_m,
     centers |-> <<>>,
     buckets |-> [k \in BucketKeys |-> <<>>],
     center_bucket |-> <<>>]

\* _bucket_id for the rational point (nx/d, ny/d) and cell side cell.
BucketId(nx, ny, d, cell) == <<PyRound(nx, d * cell), PyRound(ny, d * cell)>>

\* buckets.get(key, [])
BucketGet(cl, key) == IF key \in BucketKeys THEN cl.buckets[key] ELSE <<>>

\* The cluster ids in the order the three nested loops of assign meet them.
ScanOrder(cl, bx, by) ==
    LET B(ox, oy) == BucketGet(cl, <<bx + ox, by + oy>>)
    IN  B(-1, -1) \o B(-1, 0) \o B(-1, 1)
        \o B(0, -1) \o B(0, 0) \o B(0, 1)
        \o B(1, -1) \o B(1, 0) \o B(1, 1)

\* Squared distance from (x, y) to the centroid of cid is D2Num / cnt^2.
D2Num(cl, cid, x, y) ==
    LET c == cl.centers[cid]
    IN  (x * c[3] - c[1]) * (x * c[3] - c[1]) + (y * c[3] - c[2]) * (y * c[3] - c[2])

\* Variant of WithinTol: the tolerance test made strict.
WithinTolStrict(cl, cid, x, y) ==
    D2Num(cl, cid, x, y) < cl.tol * cl.tol * cl.centers[cid][3] * cl.centers[cid][3]

\* d2 <= tol2
WithinTol(cl, cid, x, y) ==
    D2Num(cl, cid, x, y) <= cl.tol * cl.tol * cl.centers[cid][3] * cl.centers[cid][3]

\* Variant of Closer: a candidate as close as the best so far replaces it.
CloserOrEqual(cl, cid, best_id, x, y) ==
    \/ best_id = 0
    \/ D2Num(cl, cid, x, y) * cl.centers[best_id][3] * cl.centers[best_id][3]
         <= D2Num(cl, best_id, x, y) * cl.centers[cid][3] * cl.centers[cid][3]

\* d2 < best_d2, with best_d2 = inf while best_id is the sentinel.
Closer(cl, cid, best_id, x, y) ==
    \/ best_id = 0
    \/ D2Num(cl, cid, x, y) * cl.centers[best_id][3] * cl.centers[best_id][3]
         < D2Num(cl, best_id, x, y) * cl.centers[cid][3] * cl.centers[cid][3]

RECURSIVE ScanBest(_, _, _, _, _, _)
ScanBest(cl, cands, k, best_id, x, y) ==
    IF k > Len(cands) THEN best_id
    ELSE LET cid == cands[k]
         IN  IF WithinTol(cl, cid, x, y) /\ Closer(cl, cid, best_id, x, y)
             THEN ScanBest(cl, cands, k + 1, cid, x, y)
             ELSE ScanBest(cl, cands, k + 1, best_id, x, y)

\* list.remove(v): drop the first occurrence of v.
RECURSIVE RemoveFirst(_, _)
RemoveFirst(s, v) ==
    IF s = <<>> THEN <<>>
    ELSE IF Head(s) = v THEN Tail(s)
    ELSE <<Head(s)>> \o RemoveFirst(Tail(s), v)

\* Variant of InSeq: the id is never found in its old bucket.
InSeqNever(s, v) == FALSE

InSeq(s, v) == \E k \in 1..Len(s) : s[k] = v

\* Variant of Absorb: the count is not incremented.
AbsorbKeepsCount(c, x, y) == <<c[1] + x, c[2] + y, c[3]>>

\* The online centroid update: the centroid (c[1]/c[3], c[2]/c[3]) of count
\* c[3] becomes (centroid * count + point) / (count + 1), count + 1.
Absorb(c, x, y) == <<c[1] + x, c[2] + y, c[3] + 1>>

\* assign(lon, lat): the clusterer after the call and the id returned.
Assign(cl, lonlat) ==
    LET m == fwd(lonlat)
        x == m[1]
        y == m[2]
        b == BucketId(x, y, 1, cl.tol)
        best_id == ScanBest(cl, ScanOrder(cl, b[1], b[2]), 1, 0, x, y)
    IN  IF best_id = 0
        THEN LET cid == Len(cl.centers) + 1
             IN  [cl |-> [cl EXCEPT !.centers = Append(@, <<x, y, 1>>),
                                    !.buckets[b] = Append(@, cid),
                                    !.center_bucket = Append(@, b)],
                  id |-> cid]
        ELSE LET c == cl.centers[best_id]
                 ncnt == c[3] + 1
                 nc == Absorb(c, x, y)
                 nb == BucketId(nc[1], nc[2], ncnt, cl.tol)
                 ob == cl.center_bucket[best_id]
                 moved == [cl EXCEPT !.centers[best_id] = nc]
             IN  [cl |-> IF nb # ob
                         THEN [moved EXCEPT
                                 !.buckets = [k \in BucketKeys |->
                                    IF k = nb
                                    THEN Append(IF k = ob /\ InSeq(@[k], best_id)
                                                THEN RemoveFirst(@[k], best_id)
                                                ELSE @[k], best_id)
                                    ELSE IF k = ob /\ InSeq(@[k], best_id)
                                    THEN RemoveFirst(@[k], best_id)
                                    ELSE @[k]],
                                 !.center_bucket[best_id] = nb]
                         ELSE moved,
                  id |-> best_id]

\* center(cid): the centroid, back in lon/lat.
center(cl, cid) == inv(Norm(cl.centers[cid]))

(***************************************************************************)
(* Specification SpecAssign: an arbitrary sequence of assign calls on one  *)
(* clusterer.  calls records, per call, the projected point and the id     *)
(* returned.                                                               *)
(***************************************************************************)
StitchIdle == [pc |-> "idle"]

SplitIdle == [pc |-> "idle"]

EmitIdle == [pc |-> "idle"]

ClipIdle == [pc |-> "idle"]

SimplifyIdle == [pc |-> "idle"]

FilterIdle == [pc |-> "idle"]

IngestIdle == [pc |-> "idle"]

MainIdle == [pc |-> "idle"]

\* The activations that take no part in a specification stay idle.
RestIdle(except) ==
    /\ "clusterer" \in except \/ (clusterer = NewClusterer(1) /\ calls = <<>>)
    /\ "stitch" \in except \/ stitch = StitchIdle
    /\ "split" \in except \/ split = SplitIdle
    /\ "emit" \in except \/ emit = EmitIdle
    /\ "clip" \in except \/ clip = ClipIdle
    /\ "simplify" \in except \/ simplify = SimplifyIdle
    /\ "filter" \in except \/ filter = FilterIdle
    /\ "ingest" \in except \/ ingest = IngestIdle
    /\ "main" \in except \/ main = MainIdle

InitAssign ==
    /\ \E t \in SnapTols : clusterer = NewClusterer(t)
    /\ calls = <<>>
    /\ RestIdle({"clusterer"})

AssignCall ==
    /\ Len(calls) < MaxAssigns
    /\ \E p \in Grid :
         LET r == Assign(clusterer, p)
         IN  /\ clusterer' = r.cl
             /\ calls' = Append(calls, [xy |-> <<fwd(p)[1], fwd(p)[2]>>, id |-> r.id])
    /\ UNCHANGED <<stitch, split, emit, clip, simplify,
                 filter, ingest, main>>

NextAssign == AssignCall

SpecAssign == InitAssign /\ [][NextAssign]_vars

(***************************************************************************)
(* stitch_lines.  One record holds the activation:                         *)
(*   pc        "build" (loop of lines 97-107), "seed" (head of the loop    *)
(*             of line 131), "forward", "backward" (the two while loops),  *)
(*             "done" (returned)                                           *)
(*   lines     the argument, as far as the build loop has consumed it      *)
(*   segs      segs[k] = [coords, start, end, used]                        *)
(*   starts, ends   cluster id -> set of segment indices                   *)
(*   stitched, i, chain, start_c, end_c   the locals of the same name      *)
(*   members   the segments of the chain under construction, in chain      *)
(*             order, each with its orientation                            *)
(*   consumed  members of every chain appended to stitched                 *)
(*   marks     marks[k] = number of times remove_idx(k) has run            *)
(***************************************************************************)
RECURSIVE Reverse(_)
Reverse(s) == IF s = <<>> THEN <<>> ELSE Reverse(Tail(s)) \o <<Head(s)>>

\* Variant of DropFirst: the first point is kept.
KeepFirst(s) == s

\* s[1:] and s[:-1]
DropFirst(s) == SubSeq(s, 2, Len(s))

DropLast(s) == SubSeq(s, 1, Len(s) - 1)

\* The lines offered to stitch_lines: one line for every ordered pair of
\* distinct endpoints on the x axis; a line running towards larger x carries
\* two interior vertices, the others none.  One line is too short to stitch.
StitchEnds == {LonLatAt(x, 0) : x \in 0..MaxEnd}

Mid1 == LonLatAt(0, 1)

Mid2 == LonLatAt(1, 1)

StitchLines ==
    {IF ab[1][1] < ab[2][1] THEN <<ab[1], Mid1, Mid2, ab[2]>> ELSE ab :
        ab \in {e \in StitchEnds \X StitchEnds : e[1] # e[2]}}
    \cup {<<Mid1>>}

InitStitch ==
    /\ \E t \in SnapTols : clusterer = NewClusterer(t)
    /\ calls = <<>>
    /\ stitch = [pc |-> "build", lines |-> <<>>, segs |-> <<>>,
                 starts |-> <<>>, ends |-> <<>>, stitched |-> <<>>,
                 i |-> 1, chain |-> <<>>, start_c |-> 0, end_c |-> 0,
                 members |-> <<>>, consumed |-> <<>>, marks |-> <<>>]
    /\ RestIdle({"clusterer", "stitch"})

\* Lines 97-99: a line with fewer than 2 points builds no segment.
SkipShortLine ==
    /\ stitch.pc = "build"
    /\ Len(stitch.lines) < MaxLines
    /\ \E line \in StitchLines :
         /\ Len(line) < 2
         /\ stitch' = [stitch EXCEPT !.lines = Append(@, line)]
    /\ UNCHANGED <<clusterer, calls, split, emit, clip, simplify,
                 filter, ingest, main>>

\* Lines 100-107: assign both endpoints, then snap both to the centers.
BuildSegment ==
    /\ stitch.pc = "build"
    /\ Len(stitch.lines) < MaxLines
    /\ \E line \in StitchLines :
         /\ Len(line) >= 2
         /\ LET s == Assign(clusterer, line[1])
                e == Assign(s.cl, line[Len(line)])
                s_xy == center(e.cl, s.id)
                e_xy == center(e.cl, e.id)
                coords == [[line EXCEPT ![1] = s_xy] EXCEPT ![Len(line)] = e_xy]
            IN  /\ clusterer' = e.cl
                /\ calls' = calls \o
                       <<[xy |-> <<fwd(line[1])[1], fwd(line[1])[2]>>, id |-> s.id],
                         [xy |-> <<fwd(line[Len(line)])[1], fwd(line[Len(line)])[2]>>,
                          id |-> e.id]>>
                /\ stitch' = [stitch EXCEPT
                       !.lines = Append(@, line),
                       !.segs = Append(@, [coords |-> coords, start |-> s.id,
                                           end |-> e.id, used |-> FALSE])]
    /\ UNCHANGED <<split, emit, clip, simplify,
                 filter, ingest, main>>

\* Lines 92-93: no lines at all.
ReturnEmpty ==
    /\ stitch.pc = "build"
    /\ stitch.lines = <<>>
    /\ stitch' = [stitch EXCEPT !.pc = "done"]
    /\ UNCHANGED <<clusterer, calls, split, emit, clip, simplify,
                 filter, ingest, main>>

\* Lines 109-113: the two indices, once every line has been consumed.
BuildIndex ==
    /\ stitch.pc = "build"
    /\ stitch.lines # <<>>
    /\ stitch' = [stitch EXCEPT
           !.pc = "seed",
           !.starts = [c \in 1..Len(clusterer.centers) |->
                         {k \in 1..Len(stitch.segs) : stitch.segs[k].start = c}],
           !.ends = [c \in 1..Len(clusterer.centers) |->
                       {k \in 1..Len(stitch.segs) : stitch.segs[k].end = c}],
           !.marks = [k \in 1..Len(stitch.segs) |-> 0]]
    /\ UNCHANGED <<clusterer, calls, split, emit, clip, simplify,
                 filter, ingest, main>>

\* Variant of remove_idx: the used flag is left alone.
remove_idx_keeps_flag(st, k) ==
    [st EXCEPT !.starts[st.segs[k].start] = @ \ {k},
               !.ends[st.segs[k].end] = @ \ {k},
               !.marks[k] = @ + 1]

\* Variant of remove_idx: the segment leaves the starts index only.
remove_idx_starts_only(st, k) ==
    [st EXCEPT !.starts[st.segs[k].start] = @ \ {k},
               !.marks[k] = @ + 1]

\* remove_idx(k)
remove_idx(st, k) ==
    [st EXCEPT !.starts[st.segs[k].start] = @ \ {k},
               !.ends[st.segs[k].end] = @ \ {k},
               !.segs[k].used = TRUE,
               !.marks[k] = @ + 1]

\* Variant of pick_next: the candidates are read off the segments' cluster
\* ids, whether or not the segment has been used.
pick_next_ignores_used(st, cluster_id) ==
    LET fromStarts == {k \in 1..Len(st.segs) : st.segs[k].start = cluster_id}
        fromEnds == {k \in 1..Len(st.segs) : st.segs[k].end = cluster_id}
    IN  IF fromStarts # {} THEN {<<k, TRUE>> : k \in fromStarts}
        ELSE {<<k, FALSE>> : k \in fromEnds}

\* Variant of pick_next: the ends index is searched before the starts index.
pick_next_ends_first(st, cluster_id) ==
    LET fromStarts == {k \in st.starts[cluster_id] : ~st.segs[k].used}
        fromEnds == {k \in st.ends[cluster_id] : ~st.segs[k].used}
    IN  IF fromEnds # {} THEN {<<k, FALSE>> : k \in fromEnds}
        ELSE {<<k, TRUE>> : k \in fromStarts}

\* Variant of pick_next: a candidate of either index is returned, whichever
\* comes first.
pick_next_no_preference(st, cluster_id) ==
    LET fromStarts == {k \in st.starts[cluster_id] : ~st.segs[k].used}
        fromEnds == {k \in st.ends[cluster_id] : ~st.segs[k].used}
    IN  {<<k, TRUE>> : k \in fromStarts} \cup {<<k, FALSE>> : k \in fromEnds}

\* Variant of pick_next: only the starts index is searched.
pick_next_starts_only(st, cluster_id) ==
    {<<k, TRUE>> : k \in {j \in st.starts[cluster_id] : ~st.segs[j].used}}

\* pick_next(cluster_id): every <<k, forward>> the call can return.  The two
\* loops walk a Python set, whose order the language leaves open; None is
\* the empty set.
pick_next(st, cluster_id) ==
    LET fromStarts == {k \in st.starts[cluster_id] : ~st.segs[k].used}
        fromEnds == {k \in st.ends[cluster_id] : ~st.segs[k].used}
    IN  IF fromStarts # {} THEN {<<k, TRUE>> : k \in fromStarts}
        ELSE {<<k, FALSE>> : k \in fromEnds}

\* Lines 131-133: a used segment seeds nothing.
SkipUsed ==
    /\ stitch.pc = "seed"
    /\ stitch.i <= Len(stitch.segs)
    /\ stitch.segs[stitch.i].used
    /\ stitch' = [stitch EXCEPT !.i = @ + 1]
    /\ UNCHANGED <<clusterer, calls, split, emit, clip, simplify,
                 filter, ingest, main>>

\* Lines 135-138
SeedChain ==
    /\ stitch.pc = "seed"
    /\ stitch.i <= Len(stitch.segs)
    /\ ~stitch.segs[stitch.i].used
    /\ LET seg == stitch.segs[stitch.i]
       IN  stitch' = remove_idx([stitch EXCEPT
                        !.pc = "forward",
                        !.chain = seg.coords,
                        !.start_c = seg.start,
                        !.end_c = seg.end,
                        !.members = <<[seg |-> stitch.i, rev |-> FALSE]>>],
                      stitch.i)
    /\ UNCHANGED <<clusterer, calls, split, emit, clip, simplify,
                 filter, ingest, main>>

\* Lines 141-156, one turn of the loop that appends a segment.
ExtendForward ==
    /\ stitch.pc = "forward"
    /\ \E nxt \in pick_next(stitch, stitch.end_c) :
         LET j == nxt[1]
             forward == nxt[2]
             jseg == stitch.segs[j]
         IN  /\ j # stitch.i
             /\ stitch' = remove_idx([stitch EXCEPT
                    !.chain = IF forward THEN @ \o DropFirst(jseg.coords)
                                         ELSE @ \o DropFirst(Reverse(jseg.coords)),
                    !.end_c = IF forward THEN jseg.end ELSE jseg.start,
                    !.members = Append(@, [seg |-> j, rev |-> ~forward])],
                  j)
    /\ UNCHANGED <<clusterer, calls, split, emit, clip, simplify,
                 filter, ingest, main>>

\* Lines 142-147, the turn that breaks out of the forward loop.
StopForward ==
    /\ stitch.pc = "forward"
    /\ \/ pick_next(stitch, stitch.end_c) = {}
       \/ \E nxt \in pick_next(stitch, stitch.end_c) : nxt[1] = stitch.i
    /\ stitch' = [stitch EXCEPT !.pc = "backward"]
    /\ UNCHANGED <<clusterer, calls, split, emit, clip, simplify,
                 filter, ingest, main>>

\* Lines 159-176, one turn of the loop that prepends a segment.
ExtendBackward ==
    /\ stitch.pc = "backward"
    /\ \E nxt \in pick_next(stitch, stitch.start_c) :
         LET j == nxt[1]
             forward == nxt[2]
             jseg == stitch.segs[j]
         IN  /\ j # stitch.i
             /\ stitch' = remove_idx([stitch EXCEPT
                    !.chain = IF ~forward THEN DropLast(jseg.coords) \o @
                                          ELSE DropLast(Reverse(jseg.coords)) \o @,
                    !.start_c = IF ~forward THEN jseg.start ELSE jseg.end,
                    !.members = <<[seg |-> j, rev |-> forward]>> \o @],
                  j)
    /\ UNCHANGED <<clusterer, calls, split, emit, clip, simplify,
                 filter, ingest, main>>

\* Lines 160-165 and 178: break out of the backward loop and emit the chain.
EmitChain ==
    /\ stitch.pc = "backward"
    /\ \/ pick_next(stitch, stitch.start_c) = {}
       \/ \E nxt \in pick_next(stitch, stitch.start_c) : nxt[1] = stitch.i
    /\ stitch' = [stitch EXCEPT
           !.pc = "seed",
           !.stitched = Append(@, stitch.chain),
           !.consumed = Append(@, stitch.members),
           !.i = @ + 1]
    /\ UNCHANGED <<clusterer, calls, split, emit, clip, simplify,
                 filter, ingest, main>>

\* Line 180
ReturnStitched ==
    /\ stitch.pc = "seed"
    /\ stitch.i > Len(stitch.segs)
    /\ stitch' = [stitch EXCEPT !.pc = "done"]
    /\ UNCHANGED <<clusterer, calls, split, emit, clip, simplify,
                 filter, ingest, main>>

NextStitch ==
    \/ SkipShortLine
    \/ BuildSegment
    \/ ReturnEmpty
    \/ BuildIndex
    \/ SkipUsed
    \/ SeedChain
    \/ ExtendForward
    \/ StopForward
    \/ ExtendBackward
    \/ EmitChain
    \/ ReturnStitched

SpecStitch == InitStitch /\ [][NextStitch]_vars

(***************************************************************************)
(* split_line_max_length_meters.  One record holds the activation:         *)
(*   pc         "loop" (lines 240-248), "done" (returned)                  *)
(*   line, max_len_m   the arguments                                       *)
(*   i, cur, accum, parts   the locals of the same name; i is 1-based, so  *)
(*              the loop runs i over 2..Len(line)                          *)
(***************************************************************************)
\* math.hypot(dx, dy).  Exact where the root is an integer, which is so on
\* the chains below: all their edges run along the x axis.
Hypot(dx, dy) ==
    IF dy = 0 THEN Abs(dx)
    ELSE IF dx = 0 THEN Abs(dy)
    ELSE CHOOSE r \in 0..(Abs(dx) + Abs(dy)) : r * r = dx * dx + dy * dy

\* Chains offered to the splitter: vertices on the x axis at multiples of
\* 100 m, in increasing order; every chain of total length 1000 m with
\* vertices on that raster is among them.
SplitXs == 0..SplitSteps

SplitChains ==
    {<<>>} \cup
    {[k \in 1..Cardinality(S) |->
        LonLatAt(100 * (CHOOSE x \in S : Cardinality({z \in S : z < x}) = k - 1), 0)] :
     S \in (SUBSET SplitXs) \ {{}}}

SplitMaxLens == {100 * k : k \in 1..MaxChunkSteps}

\* xs[k], ys[k] of line 236, for integer vertices.
ProjX(line, k) == fwd(line[k])[1]

ProjY(line, k) == fwd(line[k])[2]

\* Line 241
SegLen(line, k) ==
    Hypot(ProjX(line, k) - ProjX(line, k - 1), ProjY(line, k) - ProjY(line, k - 1))

\* Variant of MustCut: a chunk of a single point can be closed too.
MustCutFirstEdgeToo(sp) == sp.accum + SegLen(sp.line, sp.i) > sp.max_len_m

\* Variant of MustCut: a chunk is closed after every edge.
MustCutIgnoringLength(sp) == Len(sp.cur) > 1

\* Variant of MustCut: a chunk is closed as soon as it would reach max_len_m.
MustCutAtLimit(sp) ==
    Len(sp.cur) > 1 /\ sp.accum + SegLen(sp.line, sp.i) >= sp.max_len_m

\* Line 242
MustCut(sp) ==
    Len(sp.cur) > 1 /\ sp.accum + SegLen(sp.line, sp.i) > sp.max_len_m

\* Variant of NewChunk: the new chunk starts at the next vertex.
NewChunkNoOverlap(line, k) == <<line[k]>>

\* Line 244
NewChunk(line, k) == <<line[k - 1], line[k]>>

InitSplit ==
    /\ RestIdle({"split"})
    /\ \E line \in SplitChains : \E m \in SplitMaxLens :
         split = [pc |-> "start", line |-> line, max_len_m |-> m,
                  i |-> 2, cur |-> <<>>, accum |-> 0, parts |-> <<>>]

\* Lines 233-234
SplitReturnNothing ==
    /\ split.pc = "start"
    /\ Len(split.line) < 2
    /\ split' = [split EXCEPT !.pc = "done"]
    /\ UNCHANGED <<clusterer, calls, stitch, emit, clip, simplify,
                 filter, ingest, main>>

\* Lines 235-239
SplitBegin ==
    /\ split.pc = "start"
    /\ Len(split.line) >= 2
    /\ split' = [split EXCEPT !.pc = "loop", !.cur = <<split.line[1]>>]
    /\ UNCHANGED <<clusterer, calls, stitch, emit, clip, simplify,
                 filter, ingest, main>>

\* Lines 242-245: close the chunk and start the next one.
SplitCut ==
    /\ split.pc = "loop"
    /\ split.i <= Len(split.line)
    /\ MustCut(split)
    /\ split' = [split EXCEPT
           !.parts = Append(@, split.cur),
           !.cur = NewChunk(split.line, split.i),
           !.accum = SegLen(split.line, split.i),
           !.i = @ + 1]
    /\ UNCHANGED <<clusterer, calls, stitch, emit, clip, simplify,
                 filter, ingest, main>>

\* Lines 246-248: the edge joins the current chunk.
SplitGrow ==
    /\ split.pc = "loop"
    /\ split.i <= Len(split.line)
    /\ ~MustCut(split)
    /\ split' = [split EXCEPT
           !.cur = Append(@, split.line[split.i]),
           !.accum = @ + SegLen(split.line, split.i),
           !.i = @ + 1]
    /\ UNCHANGED <<clusterer, calls, stitch, emit, clip, simplify,
                 filter, ingest, main>>

\* Lines 249-251
SplitReturn ==
    /\ split.pc = "loop"
    /\ split.i > Len(split.line)
    /\ split' = [split EXCEPT
           !.pc = "done",
           !.parts = IF Len(split.cur) >= 2 THEN Append(@, split.cur) ELSE @]
    /\ UNCHANGED <<clusterer, calls, stitch, emit, clip, simplify,
                 filter, ingest, main>>

NextSplit ==
    \/ SplitReturnNothing
    \/ SplitBegin
    \/ SplitCut
    \/ SplitGrow
    \/ SplitReturn

SpecSplit == InitSplit /\ [][NextSplit]_vars

(***************************************************************************)
(* line_bbox and lines_to_feature_collection_with_bboxes.                  *)
(* A coordinate is a pair <<n, d>> standing for n / d.  The activation:    *)
(*   pc        "loop" (lines 293-307), "done" (returned)                   *)
(*   lines, source_name   the arguments                                    *)
(*   i         position of the loop in lines (1-based)                     *)
(*   features  the list of the same name; a feature is                     *)
(*             [source, segment_id, bbox, coordinates]                     *)
(***************************************************************************)
RatLess(a, b) == a[1] * b[2] < b[1] * a[2]

\* min(xs) and max(xs) of Python: the first smallest (largest) element.
RECURSIVE PyMinFrom(_, _, _)
PyMinFrom(xs, k, best) ==
    IF k > Len(xs) THEN best
    ELSE PyMinFrom(xs, k + 1, IF RatLess(xs[k], best) THEN xs[k] ELSE best)

PyMin(xs) == PyMinFrom(xs, 2, xs[1])

RECURSIVE PyMaxFrom(_, _, _)
PyMaxFrom(xs, k, best) ==
    IF k > Len(xs) THEN best
    ELSE PyMaxFrom(xs, k + 1, IF RatLess(best, xs[k]) THEN xs[k] ELSE best)

PyMax(xs) == PyMaxFrom(xs, 2, xs[1])

\* [p[0] for p in line] and [p[1] for p in line]
Lons(line) == [k \in 1..Len(line) |-> <<line[k][1], line[k][3]>>]

Lats(line) == [k \in 1..Len(line) |-> <<line[k][2], line[k][3]>>]

\* Variant of line_bbox: the box of the first and last vertex only.
line_bbox_of_ends(line) ==
    LET ends == <<line[1], line[Len(line)]>>
    IN  <<PyMin(Lons(ends)), PyMin(Lats(ends)), PyMax(Lons(ends)), PyMax(Lats(ends))>>

line_bbox(line) ==
    <<PyMin(Lons(line)), PyMin(Lats(line)), PyMax(Lons(line)), PyMax(Lats(line))>>

\* Lines offered to the emitter: 2 or 3 vertices out of three, one of them
\* a snapped endpoint with fractional coordinates; and a line of one vertex.
EmitPts == {LonLatAt(1, 0), LonLatAt(0, 1), inv(<<1, 3, 2>>)}

EmitLines ==
    {<<a, b>> : a \in EmitPts, b \in EmitPts}
    \cup {<<a, b, c>> : a \in EmitPts, b \in EmitPts, c \in EmitPts}
    \cup {<<LonLatAt(0, 0)>>}

InitEmit ==
    /\ RestIdle({"emit"})
    /\ \E n \in 0..MaxEmitLines : \E lines \in [1..n -> EmitLines] :
         emit = [pc |-> "loop", lines |-> lines, source_name |-> "src",
                 i |-> 1, features |-> <<>>]

\* Lines 294-295
EmitSkip ==
    /\ emit.pc = "loop"
    /\ emit.i <= Len(emit.lines)
    /\ Len(emit.lines[emit.i]) < 2
    /\ emit' = [emit EXCEPT !.i = @ + 1]
    /\ UNCHANGED <<clusterer, calls, stitch, split, clip, simplify,
                 filter, ingest, main>>

\* Lines 296-307.  enumerate counts from 0: the segment_id is i - 1.
EmitFeature ==
    /\ emit.pc = "loop"
    /\ emit.i <= Len(emit.lines)
    /\ Len(emit.lines[emit.i]) >= 2
    /\ LET line == emit.lines[emit.i]
           bbox == line_bbox(line)
       IN  emit' = [emit EXCEPT
              !.i = @ + 1,
              !.features = Append(@, [source |-> emit.source_name,
                                      segment_id |-> emit.i - 1,
                                      bbox |-> <<bbox[1], bbox[2], bbox[3], bbox[4]>>,
                                      coordinates |-> line])]
    /\ UNCHANGED <<clusterer, calls, stitch, split, clip, simplify,
                 filter, ingest, main>>

\* Lines 308-312
EmitReturn ==
    /\ emit.pc = "loop"
    /\ emit.i > Len(emit.lines)
    /\ emit' = [emit EXCEPT !.pc = "done"]
    /\ UNCHANGED <<clusterer, calls, stitch, split, clip, simplify,
                 filter, ingest, main>>

NextEmit ==
    \/ EmitSkip
    \/ EmitFeature
    \/ EmitReturn

SpecEmit == InitEmit /\ [][NextEmit]_vars

(***************************************************************************)
(* clip_lines_to_bbox.  The activation:                                    *)
(*   pc        "loop" (lines 100-107), "done" (returned)                   *)
(*   lines, lon_min, lat_min, lon_max, lat_max   the arguments; the four   *)
(*             numbers are coordinates <<n, d>>                            *)
(*   i         position of the loop in lines (1-based)                     *)
(*   kept      the list of the same name                                   *)
(***************************************************************************)
\* Variant of Rejects: a line touching the box from outside is rejected too.
RejectsTouching(line, lon_min, lat_min, lon_max, lat_max) ==
    \/ ~RatLess(lon_min, PyMax(Lons(line)))
    \/ ~RatLess(PyMin(Lons(line)), lon_max)
    \/ ~RatLess(lat_min, PyMax(Lats(line)))
    \/ ~RatLess(PyMin(Lats(line)), lat_max)

\* Line 105
Rejects(line, lon_min, lat_min, lon_max, lat_max) ==
    \/ RatLess(PyMax(Lons(line)), lon_min)
    \/ RatLess(lon_max, PyMin(Lons(line)))
    \/ RatLess(PyMax(Lats(line)), lat_min)
    \/ RatLess(lat_max, PyMin(Lats(line)))

\* Lines offered to the clip: 2 or 3 vertices out of three, and the empty
\* line.  The query box has its sides on the same raster.
ClipPts == {LonLatAt(0, 0), LonLatAt(1, 1), LonLatAt(2, 0)}

ClipLines ==
    {<<a, b>> : a \in ClipPts, b \in ClipPts}
    \cup {<<LonLatAt(0, 0), LonLatAt(1, 1), LonLatAt(2, 0)>>,
          <<LonLatAt(1, 1), LonLatAt(0, 0), LonLatAt(1, 1)>>}
    \cup {<<>>}

ClipLons == {<<LonLatAt(x, 0)[1], 1>> : x \in 0..2}

ClipLats == {<<LonLatAt(0, y)[2], 1>> : y \in 0..1}

InitClip ==
    /\ RestIdle({"clip"})
    /\ \E n \in 0..MaxClipLines : \E lines \in [1..n -> ClipLines] :
       \E lo \in ClipLons, hi \in ClipLons, la \in ClipLats, ha \in ClipLats :
         clip = [pc |-> "loop", lines |-> lines,
                 lon_min |-> lo, lat_min |-> la, lon_max |-> hi, lat_max |-> ha,
                 i |-> 1, kept |-> <<>>]

\* Lines 103-106: an empty line, or one the box test rejects.
ClipDrop ==
    /\ clip.pc = "loop"
    /\ clip.i <= Len(clip.lines)
    /\ LET line == clip.lines[clip.i]
       IN  \/ line = <<>>
           \/ /\ line # <<>>
              /\ Rejects(line, clip.lon_min, clip.lat_min, clip.lon_max, clip.lat_max)
    /\ clip' = [clip EXCEPT !.i = @ + 1]
    /\ UNCHANGED <<clusterer, calls, stitch, split, emit, simplify,
                 filter, ingest, main>>

\* Line 107
ClipKeep ==
    /\ clip.pc = "loop"
    /\ clip.i <= Len(clip.lines)
    /\ LET line == clip.lines[clip.i]
       IN  /\ line # <<>>
           /\ ~Rejects(line, clip.lon_min, clip.lat_min, clip.lon_max, clip.lat_max)
           /\ clip' = [clip EXCEPT !.i = @ + 1, !.kept = Append(@, line)]
    /\ UNCHANGED <<clusterer, calls, stitch, split, emit, simplify,
                 filter, ingest, main>>

\* Line 108
ClipReturn ==
    /\ clip.pc = "loop"
    /\ clip.i > Len(clip.lines)
    /\ clip' = [clip EXCEPT !.pc = "done"]
    /\ UNCHANGED <<clusterer, calls, stitch, split, emit, simplify,
                 filter, ingest, main>>

NextClip ==
    \/ ClipDrop
    \/ ClipKeep
    \/ ClipReturn

SpecClip == InitClip /\ [][NextClip]_vars

(***************************************************************************)
(* simplify_line_meters.  The activation:                                  *)
(*   pc        "start", "loop" (lines 144-150), "done" (returned)          *)
(*   line, tolerance_m   the arguments                                     *)
(*   i         loop index, 1-based: the interior points are 2..Len(line)-1 *)
(*   out       the list of the same name                                   *)
(*   last      position in line of the point (last_x, last_y)              *)
(***************************************************************************)
\* Variant of FarEnough: the distance must exceed the tolerance.
FarEnoughStrict(line, k, last, tolerance_m) ==
    LET dx == ProjX(line, k) - ProjX(line, last)
        dy == ProjY(line, k) - ProjY(line, last)
    IN  dx * dx + dy * dy > tolerance_m * tolerance_m

\* Variant of FarEnough: the distance is taken from the point before, kept
\* or not.
FarFromPrevious(line, k, last, tolerance_m) ==
    LET dx == ProjX(line, k) - ProjX(line, k - 1)
        dy == ProjY(line, k) - ProjY(line, k - 1)
    IN  dx * dx + dy * dy >= tolerance_m * tolerance_m

\* Lines 143, 145-147
FarEnough(line, k, last, tolerance_m) ==
    LET dx == ProjX(line, k) - ProjX(line, last)
        dy == ProjY(line, k) - ProjY(line, last)
    IN  dx * dx + dy * dy >= tolerance_m * tolerance_m

\* Lines offered to the simplifier: up to MaxSimLen vertices, either out of
\* the points x = 0..MaxSimX m on the x axis or out of the corners of a
\* triangle.
SimplifyPts == {LonLatAt(x, 0) : x \in 0..MaxSimX}

TrianglePts == {LonLatAt(0, 0), LonLatAt(1, 1), LonLatAt(2, 0)}

SimplifyTols == 1..MaxTol

InitSimplify ==
    /\ RestIdle({"simplify"})
    /\ \E n \in 1..MaxSimLen :
       \E line \in [1..n -> SimplifyPts] \cup [1..n -> TrianglePts] :
       \E t \in SimplifyTols :
         simplify = [pc |-> "start", line |-> line, tolerance_m |-> t,
                     i |-> 2, out |-> <<>>, last |-> 1]

\* Lines 136-137
SimplifyReturnCopy ==
    /\ simplify.pc = "start"
    /\ Len(simplify.line) <= 2
    /\ simplify' = [simplify EXCEPT !.pc = "done", !.out = simplify.line]
    /\ UNCHANGED <<clusterer, calls, stitch, split, emit, clip,
                 filter, ingest, main>>

\* Lines 138-143
SimplifyBegin ==
    /\ simplify.pc = "start"
    /\ Len(simplify.line) > 2
    /\ simplify' = [simplify EXCEPT
           !.pc = "loop",
           !.out = <<simplify.line[1]>>,
           !.last = 1]
    /\ UNCHANGED <<clusterer, calls, stitch, split, emit, clip,
                 filter, ingest, main>>

\* Lines 145-150: the interior point is kept.
SimplifyKeep ==
    /\ simplify.pc = "loop"
    /\ simplify.i <= Len(simplify.line) - 1
    /\ FarEnough(simplify.line, simplify.i, simplify.last, simplify.tolerance_m)
    /\ simplify' = [simplify EXCEPT
           !.out = Append(@, simplify.line[simplify.i]),
           !.last = simplify.i,
           !.i = @ + 1]
    /\ UNCHANGED <<clusterer, calls, stitch, split, emit, clip,
                 filter, ingest, main>>

\* Lines 145-147: the interior point is discarded.
SimplifyDiscard ==
    /\ simplify.pc = "loop"
    /\ simplify.i <= Len(simplify.line) - 1
    /\ ~FarEnough(simplify.line, simplify.i, simplify.last, simplify.tolerance_m)
    /\ simplify' = [simplify EXCEPT !.i = @ + 1]
    /\ UNCHANGED <<clusterer, calls, stitch, split, emit, clip,
                 filter, ingest, main>>

\* Lines 151-152
SimplifyReturn ==
    /\ simplify.pc = "loop"
    /\ simplify.i > Len(simplify.line) - 1
    /\ simplify' = [simplify EXCEPT
           !.pc = "done",
           !.out = Append(@, simplify.line[Len(simplify.line)])]
    /\ UNCHANGED <<clusterer, calls, stitch, split, emit, clip,
                 filter, ingest, main>>

NextSimplify ==
    \/ SimplifyReturnCopy
    \/ SimplifyBegin
    \/ SimplifyKeep
    \/ SimplifyDiscard
    \/ SimplifyReturn

SpecSimplify == InitSimplify /\ [][NextSimplify]_vars

(***************************************************************************)
(* iter_lines_from_geojson.  A GeoJSON object is a record; a position is a *)
(* sequence of numbers (lon, lat and perhaps an elevation); the            *)
(* coordinates of a LineString are a sequence of positions, held in the    *)
(* field coords; those of a MultiLineString are a sequence of such         *)
(* sequences, held in the field members (the two have different types).    *)
(* A feature whose geometry is null has gtype "null"; the coordinates of   *)
(* a geometry of any other type are never read.  The activation:           *)
(*   pc    "call", "done" (the generator is exhausted)                     *)
(*   obj   the argument                                                    *)
(*   out   the lines yielded, in order                                     *)
(***************************************************************************)
\* Variant of IsPolyline: one point is enough.
IsPolylineNonEmpty(coords) == Len(coords) >= 1

\* Lines 56 and 60
IsPolyline(coords) == Len(coords) >= 2

\* Lines 57 and 61: [(float(p[0]), float(p[1])) for p in coords]
FloatPairs(coords) == [k \in 1..Len(coords) |-> <<coords[k][1], coords[k][2], 1>>]

\* Lines 59-61: the loop over the members of a MultiLineString.
RECURSIVE YieldMembers(_, _, _)
YieldMembers(coords, k, out) ==
    IF k > Len(coords) THEN out
    ELSE YieldMembers(coords, k + 1,
                      IF IsPolyline(coords[k]) THEN Append(out, FloatPairs(coords[k]))
                                               ELSE out)

\* Lines 51-61: the loop over the features.
RECURSIVE YieldFeatures(_, _, _)
YieldFeatures(features, k, out) ==
    IF k > Len(features) THEN out
    ELSE LET gtype == features[k].gtype
             coords == features[k].coords
         IN  YieldFeatures(features, k + 1,
                 IF gtype = "LineString"
                 THEN (IF IsPolyline(coords) THEN Append(out, FloatPairs(coords)) ELSE out)
                 ELSE IF gtype = "MultiLineString"
                 THEN YieldMembers(features[k].members, 1, out)
                 ELSE out)

\* obj.get("features", [])
FeaturesOf(obj) == IF "features" \in DOMAIN obj THEN obj.features ELSE <<>>

iter_lines_from_geojson(obj) == YieldFeatures(FeaturesOf(obj), 1, <<>>)

\* Objects offered to the ingestion: polylines of 0 to 3 positions, one of
\* the positions with an elevation; LineString, MultiLineString, Point and
\* null-geometry features; and an object without a "features" member.
JsonA == <<-123, 47>>

JsonB == <<-122, 47>>

JsonC == <<-121, 47, 5>>

JsonPolylines == {<<>>, <<JsonA>>, <<JsonA, JsonB>>, <<JsonB, JsonC, JsonA>>}

JsonMemberLists ==
    {<<>>} \cup {<<a>> : a \in JsonPolylines \ {<<>>}}
    \cup {<<a, b>> : a \in JsonPolylines \ {<<>>}, b \in JsonPolylines \ {<<>>}}

JsonFeatures ==
    {[gtype |-> "LineString", coords |-> c, members |-> <<>>] : c \in JsonPolylines}
    \cup {[gtype |-> "MultiLineString", coords |-> <<>>, members |-> m] :
             m \in JsonMemberLists}
    \cup {[gtype |-> "Point", coords |-> <<>>, members |-> <<>>],
          [gtype |-> "null", coords |-> <<>>, members |-> <<>>]}

JsonObjects ==
    {[type |-> "FeatureCollection"]}
    \cup {[type |-> "FeatureCollection", features |-> fs] :
            fs \in UNION {[1..n -> JsonFeatures] : n \in 0..MaxFeatures}}

InitIngest ==
    /\ RestIdle({"ingest"})
    /\ \E obj \in JsonObjects : ingest = [pc |-> "call", obj |-> obj, out |-> <<>>]

\* list(iter_lines_from_geojson(obj))
IngestCall ==
    /\ ingest.pc = "call"
    /\ ingest' = [ingest EXCEPT !.pc = "done",
                                !.out = iter_lines_from_geojson(ingest.obj)]
    /\ UNCHANGED <<clusterer, calls, stitch, split, emit, clip, simplify,
                   filter, main>>

NextIngest == IngestCall

SpecIngest == InitIngest /\ [][NextIngest]_vars

(***************************************************************************)
(* line_length_meters and filter_lines_min_length_meters.  The activation: *)
(*   pc    "call", "done" (returned)                                       *)
(*   lines, min_len_m   the arguments                                      *)
(*   out   the list returned                                               *)
(***************************************************************************)
\* Lines 80-84: the loop that adds up the edges.
RECURSIVE LengthFrom(_, _, _)
LengthFrom(line, i, total) ==
    IF i > Len(line) THEN total
    ELSE LengthFrom(line, i + 1, total + SegLen(line, i))

line_length_meters(line) == IF Len(line) < 2 THEN 0 ELSE LengthFrom(line, 2, 0)

\* Variant of LongEnough: a line of exactly min_len_m is dropped.
LongEnoughStrict(line, min_len_m) == line_length_meters(line) > min_len_m

\* Line 195
LongEnough(line, min_len_m) == line_length_meters(line) >= min_len_m

\* Lines 191-196: the loop over the lines.
RECURSIVE FilterFrom(_, _, _, _)
FilterFrom(lines, k, min_len_m, out) ==
    IF k > Len(lines) THEN out
    ELSE FilterFrom(lines, k + 1, min_len_m,
                    IF Len(lines[k]) < 2 THEN out
                    ELSE IF LongEnough(lines[k], min_len_m) THEN Append(out, lines[k])
                    ELSE out)

filter_lines_min_length_meters(lines, min_len_m) ==
    IF min_len_m <= 0 THEN lines ELSE FilterFrom(lines, 1, min_len_m, <<>>)

\* Lines offered to the filter: on the x axis, of 1 to 4 points, one of them
\* going forth and back; thresholds from -1 m upwards.
FilterLines ==
    {<<LonLatAt(0, 0)>>,
     <<LonLatAt(0, 0), LonLatAt(1, 0)>>,
     <<LonLatAt(2, 0), LonLatAt(0, 0)>>,
     <<LonLatAt(0, 0), LonLatAt(1, 0), LonLatAt(0, 0)>>,
     <<LonLatAt(0, 0), LonLatAt(1, 0), LonLatAt(2, 0), LonLatAt(3, 0)>>}

FilterMinLens == -1..MaxMinLen

InitFilter ==
    /\ RestIdle({"filter"})
    /\ \E n \in 0..MaxFilterLines : \E lines \in [1..n -> FilterLines] :
       \E m \in FilterMinLens :
         filter = [pc |-> "call", lines |-> lines, min_len_m |-> m, out |-> <<>>]

FilterCall ==
    /\ filter.pc = "call"
    /\ filter' = [filter EXCEPT
           !.pc = "done",
           !.out = filter_lines_min_length_meters(filter.lines, filter.min_len_m)]
    /\ UNCHANGED <<clusterer, calls, stitch, split, emit, clip, simplify,
                   ingest, main>>

NextFilter == FilterCall

SpecFilter == InitFilter /\ [][NextFilter]_vars

(***************************************************************************)
(* The stages as main calls them: each function as one operator, its loop  *)
(* a recursion over the loop index, built from the same tests and updates  *)
(* as the step-by-step activations above.                                  *)
(***************************************************************************)
\* clip_lines_to_bbox, lines 100-107
RECURSIVE ClipLoop(_, _, _, _)
ClipLoop(lines, k, box, kept) ==
    IF k > Len(lines) THEN kept
    ELSE ClipLoop(lines, k + 1, box,
                  IF lines[k] = <<>> THEN kept
                  ELSE IF Rejects(lines[k], box[1], box[2], box[3], box[4]) THEN kept
                  ELSE Append(kept, lines[k]))

clip_lines_to_bbox(lines, lon_min, lat_min, lon_max, lat_max) ==
    ClipLoop(lines, 1, <<lon_min, lat_min, lon_max, lat_max>>, <<>>)

\* simplify_line_meters, lines 144-152
RECURSIVE ThinLoop(_, _, _, _, _)
ThinLoop(line, i, last, out, tolerance_m) ==
    IF i > Len(line) - 1 THEN Append(out, line[Len(line)])
    ELSE IF FarEnough(line, i, last, tolerance_m)
    THEN ThinLoop(line, i + 1, i, Append(out, line[i]), tolerance_m)
    ELSE ThinLoop(line, i + 1, last, out, tolerance_m)

simplify_line_meters(line, tolerance_m) ==
    IF Len(line) <= 2 THEN line ELSE ThinLoop(line, 2, 1, <<line[1]>>, tolerance_m)

\* simplify_lines_meters, lines 175-181
RECURSIVE SimplifyLoop(_, _, _, _, _)
SimplifyLoop(lines, k, tolerance_m, min_len_m, out) ==
    IF k > Len(lines) THEN out
    ELSE LET slim == simplify_line_meters(lines[k], tolerance_m)
         IN  SimplifyLoop(lines, k + 1, tolerance_m, min_len_m,
                          IF Len(slim) < 2 THEN out
                          ELSE IF line_length_meters(slim) < min_len_m THEN out
                          ELSE Append(out, slim))

simplify_lines_meters(lines, tolerance_m, min_len_m) ==
    SimplifyLoop(lines, 1, tolerance_m, min_len_m, <<>>)

\* stitch_lines, lines 102-107: the segment of a line, s and e being what
\* the two assign calls gave (each the clusterer after the call and the id).
SegmentOf(line, s, e) ==
    [coords |-> [[line EXCEPT ![1] = center(e.cl, s.id)]
                       EXCEPT ![Len(line)] = center(e.cl, e.id)],
     start |-> s.id, end |-> e.id, used |-> FALSE]

\* The record of the two assign calls.
CallsOf(line, s, e) ==
    <<[xy |-> <<fwd(line[1])[1], fwd(line[1])[2]>>, id |-> s.id],
      [xy |-> <<fwd(line[Len(line)])[1], fwd(line[Len(line)])[2]>>, id |-> e.id]>>

\* stitch_lines, lines 97-107: the clusterer, the calls made on it and the
\* segments once the loop has run over lines[k..].  BuildEnd is the loop
\* body from line 101 on, BuildSeg from line 102 on.
RECURSIVE BuildLoop(_, _, _, _, _)
BuildSeg(lines, k, cs, segs, s, e) ==
    BuildLoop(lines, k + 1, e.cl, cs \o CallsOf(lines[k], s, e),
              Append(segs, SegmentOf(lines[k], s, e)))

BuildEnd(lines, k, cs, segs, s) ==
    BuildSeg(lines, k, cs, segs, s, Assign(s.cl, lines[k][Len(lines[k])]))

BuildLoop(lines, k, cl, cs, segs) ==
    IF k > Len(lines) THEN [cl |-> cl, calls |-> cs, segs |-> segs]
    ELSE IF Len(lines[k]) < 2 THEN BuildLoop(lines, k + 1, cl, cs, segs)
    ELSE BuildEnd(lines, k, cs, segs, Assign(cl, lines[k][1]))

\* stitch_lines, lines 109-113 and 130: the activation at the head of the
\* seed loop, b being what the build loop gave.
AtSeedLoop(lines, b) ==
    [pc |-> "seed", lines |-> lines, segs |-> b.segs,
     starts |-> [c \in 1..Len(b.cl.centers) |->
                   {k \in 1..Len(b.segs) : b.segs[k].start = c}],
     ends |-> [c \in 1..Len(b.cl.centers) |->
                 {k \in 1..Len(b.segs) : b.segs[k].end = c}],
     stitched |-> <<>>, i |-> 1, chain |-> <<>>, start_c |-> 0, end_c |-> 0,
     members |-> <<>>, consumed |-> <<>>,
     marks |-> [k \in 1..Len(b.segs) |-> 0]]

\* split_line_max_length_meters, lines 240-251; sp holds line, max_len_m and
\* the locals i, cur, accum, parts.
RECURSIVE SplitLoop(_)
SplitLoop(sp) ==
    IF sp.i > Len(sp.line)
    THEN (IF Len(sp.cur) >= 2 THEN Append(sp.parts, sp.cur) ELSE sp.parts)
    ELSE IF MustCut(sp)
    THEN SplitLoop([sp EXCEPT !.parts = Append(@, sp.cur),
                              !.cur = NewChunk(sp.line, sp.i),
                              !.accum = SegLen(sp.line, sp.i),
                              !.i = @ + 1])
    ELSE SplitLoop([sp EXCEPT !.cur = Append(@, sp.line[sp.i]),
                              !.accum = @ + SegLen(sp.line, sp.i),
                              !.i = @ + 1])

split_line_max_length_meters(line, max_len_m) ==
    IF Len(line) < 2 THEN <<>>
    ELSE SplitLoop([line |-> line, max_len_m |-> max_len_m, i |-> 2,
                    cur |-> <<line[1]>>, accum |-> 0, parts |-> <<>>])

\* split_lines_max_length_meters, lines 266-269
RECURSIVE split_lines_max_length_meters(_, _)
split_lines_max_length_meters(lines, max_len_m) ==
    IF lines = <<>> THEN <<>>
    ELSE split_line_max_length_meters(Head(lines), max_len_m)
         \o split_lines_max_length_meters(Tail(lines), max_len_m)

\* lines_to_feature_collection_with_bboxes, lines 293-307
RECURSIVE FeatureLoop(_, _, _, _)
FeatureLoop(lines, i, source_name, features) ==
    IF i > Len(lines) THEN features
    ELSE FeatureLoop(lines, i + 1, source_name,
             IF Len(lines[i]) < 2 THEN features
             ELSE LET bbox == line_bbox(lines[i])
                  IN  Append(features,
                             [source |-> source_name,
                              segment_id |-> i - 1,
                              bbox |-> <<bbox[1], bbox[2], bbox[3], bbox[4]>>,
                              coordinates |-> lines[i]]))

lines_to_feature_collection_with_bboxes(lines, source_name) ==
    [type |-> "FeatureCollection", name |-> "shoreline_puget",
     features |-> FeatureLoop(lines, 1, source_name, <<>>)]

\* lines_to_feature_collection: one MultiLineString feature for all lines.
lines_to_feature_collection(lines, source_name) ==
    [type |-> "FeatureCollection", name |-> "shoreline_puget",
     features |-> <<[source |-> source_name, coordinates |-> lines]>>]

(***************************************************************************)
(* main of build_viewer_coastline.py and of simplify_coastline.py.  The    *)
(* activation:                                                             *)
(*   tool      which of the two scripts runs                               *)
(*   pc        the stage about to run; "stitching" while stitch_lines is   *)
(*             in its seed loop; "returned", "raised"                      *)
(*   bbox      args.bbox split at the commas: a sequence of components,    *)
(*             each a numeral (num, with its value val) or not             *)
(*   epsg_ok   whether pyproj accepts args.epsg: if not, every             *)
(*             _get_utm_transformers call raises                           *)
(*   obj       the content of args.input                                   *)
(*   tolerance_m, min_length_m, max_chunk_len_m   the arguments            *)
(*   box       the four numbers parse_bbox returned                        *)
(*   lines     the local of the same name                                  *)
(*   out       the feature collection built                                *)
(*   stages    the stages run so far, each with the lines it returned      *)
(*   written   the content of args.output: <<>> while there is no file     *)
(*   status    "running", "exit0", or the exception that ended the run     *)
(***************************************************************************)
\* parse_bbox(text): float() raises ValueError on a component that is no
\* numeral, and so does the test of the number of components.
parse_bbox(text) ==
    IF \E k \in 1..Len(text) : ~text[k].num THEN [raised |-> TRUE, box |-> <<>>]
    ELSE IF Len(text) # 4 THEN [raised |-> TRUE, box |-> <<>>]
    ELSE [raised |-> FALSE,
          box |-> <<<<text[1].val, 1>>, <<text[2].val, 1>>,
                    <<text[3].val, 1>>, <<text[4].val, 1>>>>]

\* Some line makes the function reach _get_utm_transformers:
\* simplify_lines_meters (lines 138 and 78), split_line_max_length_meters
\* (line 235) and line_length_meters (line 78) all need a line of 2 points
\* or more for that.
ReachesUtm(lines) == \E k \in 1..Len(lines) : Len(lines[k]) >= 2

\* Inputs of a run.  Positions lie on the parallel of latitude 47, x metres
\* east of longitude -123.
Num(n) == [num |-> TRUE, val |-> n]

NotNum == [num |-> FALSE, val |-> 0]

MainBBoxes ==
    {<<Num(-123), Num(47), Num(-119), Num(47)>>,
     <<Num(-123), Num(47), Num(-122), Num(47)>>,
     <<Num(-123), Num(47), Num(-119)>>,
     <<Num(-123), Num(47), Num(-119), Num(47), Num(0)>>,
     <<Num(-123), NotNum, Num(-119), Num(47)>>}

JsonAt(x) == <<x - 123, 47>>

MainPolylines ==
    {<<JsonAt(0), JsonAt(1), JsonAt(2)>>,
     <<JsonAt(2), JsonAt(4)>>,
     <<JsonAt(4), JsonAt(0)>>,
     <<JsonAt(0)>>}

MainObjects ==
    {[type |-> "FeatureCollection",
      features |-> [k \in DOMAIN ps |->
                      [gtype |-> "LineString", coords |-> ps[k], members |-> <<>>]]] :
       ps \in UNION {[1..n -> MainPolylines] : n \in 0..MaxMainFeatures}}

MainSnapTol == 1

BuildTool == "build_viewer_coastline"

SimplifyTool == "simplify_coastline"

InitMain ==
    /\ RestIdle({"main"})
    /\ \E tool \in {BuildTool, SimplifyTool} : \E bbox \in MainBBoxes :
       \E ok \in BOOLEAN : \E obj \in MainObjects :
       \E tol \in {1, 2} : \E minlen \in {0, 3} :
       \E maxlen \in (IF tool = BuildTool THEN {2, 5} ELSE {5}) :
         main = [tool |-> tool,
                 pc |-> IF tool = BuildTool THEN "parse_bbox" ELSE "load",
                 bbox |-> bbox, epsg_ok |-> ok, obj |-> obj,
                 tolerance_m |-> tol, min_length_m |-> minlen,
                 max_chunk_len_m |-> maxlen,
                 box |-> <<>>, lines |-> <<>>, out |-> <<>>, stages |-> <<>>,
                 written |-> <<>>, status |-> "running"]

\* The run ends in the exception exc.
Raise(exc) == [main EXCEPT !.pc = "raised", !.status = exc]

\* The stage has returned ls: lines is rebound and the run moves on to pc.
Returned(stage, ls, pc) ==
    [main EXCEPT !.pc = pc, !.lines = ls,
                 !.stages = Append(@, [stage |-> stage, lines |-> ls])]

\* parse_bbox(args.bbox): line 94 of build_viewer_coastline.py, line 78 of
\* simplify_coastline.py.
MainParseBBox ==
    /\ main.pc = "parse_bbox"
    /\ LET r == parse_bbox(main.bbox)
       IN  main' = IF r.raised THEN Raise("ValueError")
                   ELSE [main EXCEPT !.box = r.box,
                                     !.pc = IF main.tool = BuildTool THEN "load"
                                            ELSE "clip"]
    /\ UNCHANGED <<clusterer, calls, stitch, split, emit, clip, simplify,
                   filter, ingest>>

\* load_geojson and list(iter_lines_from_geojson(obj)): lines 95-96 of
\* build_viewer_coastline.py, lines 73-74 of simplify_coastline.py.
MainLoad ==
    /\ main.pc = "load"
    /\ main' = Returned("ingest", iter_lines_from_geojson(main.obj),
                        IF main.tool = BuildTool THEN "clip" ELSE "parse_bbox")
    /\ UNCHANGED <<clusterer, calls, stitch, split, emit, clip, simplify,
                   filter, ingest>>

\* Line 100 (line 79 of simplify_coastline.py)
MainClip ==
    /\ main.pc = "clip"
    /\ main' = Returned("clip",
                        clip_lines_to_bbox(main.lines, main.box[1], main.box[2],
                                           main.box[3], main.box[4]),
                        "simplify")
    /\ UNCHANGED <<clusterer, calls, stitch, split, emit, clip, simplify,
                   filter, ingest>>

\* Lines 103-108 (min_len_m = 0.0); lines 82-87 of simplify_coastline.py
\* (min_len_m = args.min_length_m).
MainSimplify ==
    /\ main.pc = "simplify"
    /\ main' = IF ~main.epsg_ok /\ ReachesUtm(main.lines) THEN Raise("CRSError")
               ELSE Returned("simplify",
                             simplify_lines_meters(main.lines, main.tolerance_m,
                                 IF main.tool = BuildTool THEN 0
                                 ELSE main.min_length_m),
                             IF main.tool = BuildTool THEN "stitch" ELSE "emit")
    /\ UNCHANGED <<clusterer, calls, stitch, split, emit, clip, simplify,
                   filter, ingest>>

\* Line 112, stitch_lines up to its seed loop: lines 92-113 of
\* stitch_coastline.py.
MainStitchCall ==
    /\ main.pc = "stitch"
    /\ IF main.lines = <<>>
       THEN /\ main' = Returned("stitch", <<>>, "split")
            /\ UNCHANGED <<clusterer, calls, stitch>>
       ELSE IF ~main.epsg_ok
       THEN /\ main' = Raise("CRSError")
            /\ UNCHANGED <<clusterer, calls, stitch>>
       ELSE \E b \in {BuildLoop(main.lines, 1, NewClusterer(MainSnapTol), <<>>, <<>>)} :
                /\ clusterer' = b.cl
                /\ calls' = b.calls
                /\ stitch' = AtSeedLoop(main.lines, b)
                /\ main' = [main EXCEPT !.pc = "stitching"]
    /\ UNCHANGED <<split, emit, clip, simplify, filter, ingest>>

\* Line 112: stitch_lines has returned.
MainStitchReturn ==
    /\ main.pc = "stitching"
    /\ stitch.pc = "done"
    /\ main' = Returned("stitch", stitch.stitched, "split")
    /\ UNCHANGED <<clusterer, calls, stitch, split, emit, clip, simplify,
                   filter, ingest>>

\* Line 116
MainSplit ==
    /\ main.pc = "split"
    /\ main' = IF ~main.epsg_ok /\ ReachesUtm(main.lines) THEN Raise("CRSError")
               ELSE Returned("split",
                             split_lines_max_length_meters(main.lines,
                                                           main.max_chunk_len_m),
                             "filter")
    /\ UNCHANGED <<clusterer, calls, stitch, split, emit, clip, simplify,
                   filter, ingest>>

\* Line 120
MainFilter ==
    /\ main.pc = "filter"
    /\ main' = IF ~main.epsg_ok /\ main.min_length_m > 0 /\ ReachesUtm(main.lines)
               THEN Raise("CRSError")
               ELSE Returned("filter",
                             filter_lines_min_length_meters(main.lines,
                                                            main.min_length_m),
                             "emit")
    /\ UNCHANGED <<clusterer, calls, stitch, split, emit, clip, simplify,
                   filter, ingest>>

\* Line 124 (line 91 of simplify_coastline.py)
MainEmit ==
    /\ main.pc = "emit"
    /\ main' = [main EXCEPT
           !.pc = "save",
           !.out = IF main.tool = BuildTool
                   THEN lines_to_feature_collection_with_bboxes(main.lines, "src")
                   ELSE lines_to_feature_collection(main.lines, "src")]
    /\ UNCHANGED <<clusterer, calls, stitch, split, emit, clip, simplify,
                   filter, ingest>>

\* Lines 125-128 (lines 92-95 of simplify_coastline.py): save_geojson and
\* return 0.
MainSave ==
    /\ main.pc = "save"
    /\ main' = [main EXCEPT !.pc = "returned", !.written = <<main.out>>,
                            !.status = "exit0"]
    /\ UNCHANGED <<clusterer, calls, stitch, split, emit, clip, simplify,
                   filter, ingest>>

NextMain ==
    \/ MainParseBBox
    \/ MainLoad
    \/ MainClip
    \/ MainSimplify
    \/ MainStitchCall
    \/ SkipUsed
    \/ SeedChain
    \/ ExtendForward
    \/ StopForward
    \/ ExtendBackward
    \/ EmitChain
    \/ ReturnStitched
    \/ MainStitchReturn
    \/ MainSplit
    \/ MainFilter
    \/ MainEmit
    \/ MainSave

SpecMain == InitMain /\ [][NextMain]_vars

(***************************************************************************)
(* Specification SpecStitchCall: stitch_lines called with snap_tol_m = 1   *)
(* on lines whose endpoints lie 2 m apart or coincide, so that endpoints   *)
(* at different positions fall into different clusters and up to three     *)
(* clusters meet the seed loop.  The build loop runs as one step.          *)
(***************************************************************************)
ApartEnds == {LonLatAt(0, 0), LonLatAt(2, 0), LonLatAt(4, 0)}

\* One line for every ordered pair of endpoints; a line between distinct
\* endpoints running towards larger x carries two interior vertices, a line
\* from an endpoint back to itself one.  One line is too short to stitch.
ApartLines ==
    {IF ab[1][1] < ab[2][1] THEN <<ab[1], Mid1, Mid2, ab[2]>>
     ELSE IF ab[1] = ab[2] THEN <<ab[1], Mid1, ab[2]>>
     ELSE ab : ab \in ApartEnds \X ApartEnds}
    \cup {<<Mid1>>}

InitStitchCall ==
    /\ clusterer = NewClusterer(1)
    /\ calls = <<>>
    /\ \E n \in 0..MaxCallLines : \E lines \in [1..n -> ApartLines] :
         stitch = [pc |-> "call", lines |-> lines, segs |-> <<>>,
                   starts |-> <<>>, ends |-> <<>>, stitched |-> <<>>,
                   i |-> 1, chain |-> <<>>, start_c |-> 0, end_c |-> 0,
                   members |-> <<>>, consumed |-> <<>>, marks |-> <<>>]
    /\ RestIdle({"clusterer", "stitch"})

\* Lines 92-93
CallReturnEmpty ==
    /\ stitch.pc = "call"
    /\ stitch.lines = <<>>
    /\ stitch' = [stitch EXCEPT !.pc = "done"]
    /\ UNCHANGED <<clusterer, calls, split, emit, clip, simplify,
                   filter, ingest, main>>

\* Lines 95-113: the clusterer, the segments and the two indices.
CallBuild ==
    /\ stitch.pc = "call"
    /\ stitch.lines # <<>>
    /\ \E b \in {BuildLoop(stitch.lines, 1, clusterer, <<>>, <<>>)} :
         /\ clusterer' = b.cl
         /\ calls' = b.calls
         /\ stitch' = AtSeedLoop(stitch.lines, b)
    /\ UNCHANGED <<split, emit, clip, simplify, filter, ingest, main>>

NextStitchCall ==
    \/ CallReturnEmpty
    \/ CallBuild
    \/ SkipUsed
    \/ SeedChain
    \/ ExtendForward
    \/ StopForward
    \/ ExtendBackward
    \/ EmitChain
    \/ ReturnStitched

SpecStitchCall == InitStitchCall /\ [][NextStitchCall]_vars

(***************************************************************************)
(* Properties of EndpointClusterer.assign                                  *)
(***************************************************************************)
\* Squared distance between two integer points.
SqDist(p, q) == (p[1] - q[1]) * (p[1] - q[1]) + (p[2] - q[2]) * (p[2] - q[2])

\* C2 as stated: after any sequence of assign calls, two endpoints whose
\* projected positions are within snap_tol_m of each other carry the same
\* cluster id.
C2_NearEndpointsShareId ==
    \A m \in 1..Len(calls) : \A n \in 1..Len(calls) :
        SqDist(calls[m].xy, calls[n].xy) <= clusterer.tol * clusterer.tol
            => calls[m].id = calls[n].id

\* The clusters of the 3x3 bucket neighbourhood of the point (x, y) whose
\* centroid is within tol of it, read off center_bucket and centers.
NearCentroids(cl, x, y) ==
    LET b == BucketId(x, y, 1, cl.tol)
    IN  {cid \in 1..Len(cl.centers) :
           /\ Abs(cl.center_bucket[cid][1] - b[1]) <= 1
           /\ Abs(cl.center_bucket[cid][2] - b[2]) <= 1
           /\ LET c == cl.centers[cid]
              IN  (x * c[3] - c[1]) * (x * c[3] - c[1])
                    + (y * c[3] - c[2]) * (y * c[3] - c[2])
                  <= cl.tol * cl.tol * c[3] * c[3]}

\* C2 as amended: an assign call compares the endpoint with centroids, not
\* with other endpoints.  It returns the id of an existing cluster exactly
\* when some centroid of the 3x3 bucket neighbourhood is within snap_tol_m
\* of the endpoint, and that id is then one of those clusters, none of the
\* others being strictly closer; otherwise it returns a new id.
C2_AssignComparesWithCentroids ==
    [][Len(calls') = Len(calls) + 1 =>
         LET call == calls'[Len(calls')]
             near == NearCentroids(clusterer, call.xy[1], call.xy[2])
         IN  IF near = {}
             THEN call.id = Len(clusterer.centers) + 1
             ELSE /\ call.id \in near
                  /\ \A o \in near :
                       D2Num(clusterer, call.id, call.xy[1], call.xy[2])
                           * clusterer.centers[o][3] * clusterer.centers[o][3]
                       <= D2Num(clusterer, o, call.xy[1], call.xy[2])
                           * clusterer.centers[call.id][3]
                           * clusterer.centers[call.id][3]]_vars

\* Witness of C2: two endpoints exactly snap_tol_m apart share an id while a
\* third endpoint, within snap_tol_m of one of them, has another id.
C2_Witness ==
    \E m \in 1..Len(calls) : \E n \in 1..Len(calls) : \E o \in 1..Len(calls) :
        /\ m < n
        /\ calls[m].id = calls[n].id
        /\ SqDist(calls[m].xy, calls[n].xy) = clusterer.tol * clusterer.tol
        /\ SqDist(calls[n].xy, calls[o].xy) <= clusterer.tol * clusterer.tol
        /\ calls[o].id # calls[n].id

\* C18: an assign call allocates a new cluster exactly when no existing
\* centroid, in whatever bucket, is within snap_tol_m of the projected
\* point; otherwise it returns the id of an existing cluster.
C18_NewClusterIffNoCentroidWithinTol ==
    [][Len(calls') = Len(calls) + 1 =>
         LET call == calls'[Len(calls')]
             within == {cid \in 1..Len(clusterer.centers) :
                           WithinTol(clusterer, cid, call.xy[1], call.xy[2])}
         IN  IF within = {}
             THEN call.id = Len(clusterer.centers) + 1
             ELSE call.id \in 1..Len(clusterer.centers)]_vars

\* d2 of candidate a is smaller than d2 of candidate b.
Nearer(cl, a, b, x, y) ==
    D2Num(cl, a, x, y) * cl.centers[b][3] * cl.centers[b][3]
        < D2Num(cl, b, x, y) * cl.centers[a][3] * cl.centers[a][3]

\* C21: of the clusters the scan of the 3x3 bucket neighbourhood meets
\* (x offset -1, 0, 1, then y offset -1, 0, 1, then list order within the
\* bucket), an assign call returns one whose centroid is within snap_tol_m
\* of the point and no farther than any other such candidate; of several
\* equally close ones it returns the one met first.  With no candidate
\* within snap_tol_m it returns a new id.
C21_ClosestFirstMetWins ==
    [][Len(calls') = Len(calls) + 1 =>
         \A call \in {calls'[Len(calls')]} :
         \A b \in {BucketId(call.xy[1], call.xy[2], 1, clusterer.tol)} :
         \A cands \in {ScanOrder(clusterer, b[1], b[2])} :
         \A ok \in {{k \in 1..Len(cands) :
                        WithinTol(clusterer, cands[k], call.xy[1], call.xy[2])}} :
             IF ok = {}
             THEN call.id = Len(clusterer.centers) + 1
             ELSE \E k \in ok :
                    /\ call.id = cands[k]
                    /\ \A o \in ok :
                          /\ ~Nearer(clusterer, cands[o], cands[k],
                                     call.xy[1], call.xy[2])
                          /\ o < k => Nearer(clusterer, cands[k], cands[o],
                                             call.xy[1], call.xy[2])]_vars

\* Witness of C21: the third call found the clusters of the first two calls
\* equally close and within snap_tol_m, and returned the second one's id:
\* the scan met it first.
C21_Witness ==
    /\ Len(calls) = 3
    /\ calls[1].id = 1
    /\ calls[2].id = 2
    /\ calls[3].id = 2
    /\ SqDist(calls[3].xy, calls[1].xy) = SqDist(calls[3].xy, calls[2].xy)
    /\ SqDist(calls[3].xy, calls[1].xy) <= clusterer.tol * clusterer.tol

\* The places <<key, position>> of the bucket lists that hold cluster cid.
BucketPlaces(cl, cid) ==
    UNION {{<<key, q>> : q \in {r \in 1..Len(cl.buckets[key]) :
                                   cl.buckets[key][r] = cid}} :
           key \in BucketKeys}

\* C22: after any sequence of assign calls every cluster id sits at exactly
\* one place of exactly one bucket list, and the key of that bucket is
\* center_bucket[id] and is the bucket key of the cluster's current
\* centroid; the bucket lists hold nothing but cluster ids.
C22_IndexConsistent ==
    /\ Len(clusterer.center_bucket) = Len(clusterer.centers)
    /\ \A key \in BucketKeys : \A q \in 1..Len(clusterer.buckets[key]) :
          clusterer.buckets[key][q] \in 1..Len(clusterer.centers)
    /\ \A cid \in 1..Len(clusterer.centers) :
          \A c \in {clusterer.centers[cid]} :
          \A places \in {BucketPlaces(clusterer, cid)} :
              /\ Cardinality(places) = 1
              /\ \A kp \in places :
                    /\ kp[1] = clusterer.center_bucket[cid]
                    /\ kp[1] = BucketId(c[1], c[2], c[3], clusterer.tol)

\* Witness of C22: a cluster has absorbed points and its centroid has
\* drifted out of the bucket of the point that created it.
C22_Witness ==
    \E n \in 1..Len(calls) :
        /\ \A m \in 1..(n - 1) : calls[m].id # calls[n].id
        /\ clusterer.centers[calls[n].id][3] > 1
        /\ clusterer.center_bucket[calls[n].id]
             # BucketId(calls[n].xy[1], calls[n].xy[2], 1, clusterer.tol)

\* The calls that returned cluster cid.
CallsOfCluster(cid) == {n \in 1..Len(calls) : calls[n].id = cid}

\* Sum of coordinate q of the projected points of the calls in ns.
RECURSIVE SumOfCalls(_, _)
SumOfCalls(ns, q) ==
    IF ns = {} THEN 0
    ELSE LET n == CHOOSE m \in ns : TRUE
         IN  calls[n].xy[q] + SumOfCalls(ns \ {n}, q)

\* C27: after any sequence of assign calls the count of each cluster is the
\* number of calls that returned its id, and its centroid is the arithmetic
\* mean of the projected points of those calls.
C27_CentroidIsMean ==
    /\ \A n \in 1..Len(calls) : calls[n].id \in 1..Len(clusterer.centers)
    /\ \A cid \in 1..Len(clusterer.centers) :
          LET c == clusterer.centers[cid]
              ns == CallsOfCluster(cid)
          IN  /\ c[3] = Cardinality(ns)
              /\ c[3] >= 1
              /\ c[1] = SumOfCalls(ns, 1)
              /\ c[2] = SumOfCalls(ns, 2)

\* Witness of C27: a cluster has absorbed three distinct points and its
\* centroid lies on none of them.
C27_Witness ==
    \E cid \in 1..Len(clusterer.centers) :
        /\ clusterer.centers[cid][3] = 3
        /\ Cardinality({calls[n].xy : n \in CallsOfCluster(cid)}) = 3
        /\ Norm(clusterer.centers[cid])[3] = 3

(***************************************************************************)
(* Properties of stitch_lines                                              *)
(***************************************************************************)
RECURSIVE SumLen(_)
SumLen(ss) == IF ss = <<>> THEN 0 ELSE Len(Head(ss)) + SumLen(Tail(ss))

\* The places <<chain, position>> of the output at which segment k sits.
PlacesOf(k) ==
    {<<c, q>> \in (1..Len(stitch.consumed)) \X (1..MaxLines) :
        q <= Len(stitch.consumed[c]) /\ stitch.consumed[c][q].seg = k}

\* C1: stitch_lines builds one segment per input line of at least 2 points;
\* no segment is ever marked used twice, and once stitch_lines has returned
\* every segment has been marked used exactly once, sits at exactly one
\* place of exactly one output chain, and the segments consumed by the
\* output chains add up to the number of segments.
C1_SegmentConservation ==
    /\ stitch.pc # "idle" =>
          Len(stitch.segs)
             = Cardinality({k \in 1..Len(stitch.lines) : Len(stitch.lines[k]) >= 2})
    /\ stitch.pc \in {"seed", "forward", "backward", "done"} =>
          \A k \in 1..Len(stitch.segs) :
              /\ stitch.marks[k] <= 1
              /\ stitch.segs[k].used <=> stitch.marks[k] = 1
    /\ stitch.pc = "done" /\ stitch.lines # <<>> =>
          /\ Len(stitch.consumed) = Len(stitch.stitched)
          /\ \A k \in 1..Len(stitch.segs) :
                /\ stitch.marks[k] = 1
                /\ Cardinality(PlacesOf(k)) = 1
          /\ SumLen(stitch.consumed) = Len(stitch.segs)

\* Witness of C1: stitch_lines has returned two chains, one of them made of
\* two segments, from three segments.
C1_Witness ==
    /\ stitch.pc = "done"
    /\ Len(stitch.segs) = 3
    /\ Len(stitch.stitched) = 2
    /\ \E c \in 1..2 : Len(stitch.consumed[c]) = 2

\* C3: once all segments are built, each snapped endpoint equals the center
\* of its cluster, so touching segments carry equal coordinates there.
C3_SnappedEndpointsEqualCenter ==
    stitch.pc \in {"seed", "forward", "backward", "done"} =>
        \A k \in 1..Len(stitch.segs) :
            LET seg == stitch.segs[k]
            IN  /\ seg.coords[1] = center(clusterer, seg.start)
                /\ seg.coords[Len(seg.coords)] = center(clusterer, seg.end)

\* Number of edges of the first q members of a chain.
RECURSIVE EdgesUpTo(_, _)
EdgesUpTo(ms, q) ==
    IF q = 0 THEN 0
    ELSE Len(stitch.segs[ms[q].seg].coords) - 1 + EdgesUpTo(ms, q - 1)

\* C17: where a returned chain joins the end of segment A to the start of
\* segment B (both in their own direction, same cluster), the chain has
\* one coordinate for the junction, and it is the center the clusterer
\* holds for that cluster.
C17_JunctionAtCentroid ==
    stitch.pc = "done" =>
        \A c \in 1..Len(stitch.consumed) :
            LET ms == stitch.consumed[c]
            IN  /\ Len(stitch.stitched[c]) = 1 + EdgesUpTo(ms, Len(ms))
                /\ \A q \in 1..(Len(ms) - 1) :
                      ~ms[q].rev /\ ~ms[q + 1].rev
                      /\ stitch.segs[ms[q].seg].end = stitch.segs[ms[q + 1].seg].start
                      => stitch.stitched[c][1 + EdgesUpTo(ms, q)]
                            = center(clusterer, stitch.segs[ms[q].seg].end)

\* The segments not yet marked used.
Unused(st) == {k \in 1..Len(st.segs) : ~st.segs[k].used}

\* A measure of the work stitch_lines has left once the segments are built:
\* unused segments, seeds still to visit, position within the loop body.
Rank(st) ==
    4 * Cardinality(Unused(st)) + 4 * (Len(st.segs) + 1 - st.i)
    + (CASE st.pc = "seed" -> 3
         [] st.pc = "forward" -> 2
         [] st.pc = "backward" -> 1
         [] OTHER -> 0)

\* C12: stitch_lines terminates.  Every turn of the forward or backward
\* loop that extends the chain consumes exactly one segment that was unused
\* before the turn, so the chain never has more members than there are
\* segments; and every step after the build loop strictly lowers Rank, which
\* never falls below 0.
C12_ExtensionConsumesUnused ==
    [][stitch.pc \in {"seed", "forward", "backward"} =>
         /\ Rank(stitch') < Rank(stitch)
         /\ Rank(stitch') >= 0
         /\ Len(stitch'.members) <= Len(stitch'.segs)
         /\ stitch.pc \in {"forward", "backward"} /\ stitch'.pc = stitch.pc =>
               \E j \in Unused(stitch) :
                   /\ Unused(stitch') = Unused(stitch) \ {j}
                   /\ Len(stitch'.members) = Len(stitch.members) + 1
                   /\ \E q \in {1, Len(stitch'.members)} :
                         stitch'.members[q].seg = j]_vars

\* Witness of C12: stitch_lines has returned a chain of three segments that
\* was extended both forward and backward: its seed, the segment of lowest
\* index, sits in the middle.
C12_Witness ==
    /\ stitch.pc = "done"
    /\ \E c \in 1..Len(stitch.consumed) :
         /\ Len(stitch.consumed[c]) = 3
         /\ stitch.consumed[c][2].seg < stitch.consumed[c][1].seg
         /\ stitch.consumed[c][2].seg < stitch.consumed[c][3].seg

\* The unused segments that start, and those that end, in cluster c.
StartMatches(st, c) == {k \in Unused(st) : st.segs[k].start = c}

EndMatches(st, c) == {k \in Unused(st) : st.segs[k].end = c}

\* C23: a turn of the forward loop that extends the chain takes an unused
\* segment that starts in the chain's end cluster whenever there is one, and
\* appends it unreversed (without its first point); it takes an unused
\* segment that ends there, appended reversed, only when no unused segment
\* starts there.
C23_ForwardPrefersStartMatch ==
    [][stitch.pc = "forward" /\ stitch'.pc = "forward" =>
         LET new == stitch'.members[Len(stitch'.members)]
             coords == stitch.segs[new.seg].coords
             S == StartMatches(stitch, stitch.end_c)
             E == EndMatches(stitch, stitch.end_c)
         IN  /\ Len(stitch'.members) = Len(stitch.members) + 1
             /\ IF S # {}
                THEN /\ new.seg \in S
                     /\ ~new.rev
                     /\ stitch'.chain = stitch.chain \o DropFirst(coords)
                     /\ stitch'.end_c = stitch.segs[new.seg].end
                ELSE /\ new.seg \in E
                     /\ new.rev
                     /\ stitch'.chain = stitch.chain \o DropFirst(Reverse(coords))
                     /\ stitch'.end_c = stitch.segs[new.seg].start]_vars

\* Witness of C23: the forward loop has just appended a start-matching
\* segment unreversed while a segment that ends in the same cluster was, and
\* still is, unused.
C23_Witness ==
    /\ stitch.pc = "forward"
    /\ Len(stitch.members) >= 2
    /\ LET new == stitch.members[Len(stitch.members)]
       IN  /\ ~new.rev
           /\ \E k \in Unused(stitch) :
                 /\ stitch.segs[k].end = stitch.segs[new.seg].start
                 /\ stitch.segs[k].start # stitch.segs[new.seg].start

\* C24: a turn of the backward loop that extends the chain takes an unused
\* segment that ends in the chain's start cluster whenever there is one,
\* prepended in its own orientation; it takes an unused segment that starts
\* there, prepended reversed, only when no unused segment ends there.  (A
\* segment that starts and ends in that cluster matches both ways, and its
\* orientation is left open here.)
C24_BackwardPrefersEndMatch ==
    [][stitch.pc = "backward" /\ stitch'.pc = "backward" =>
         LET new == stitch'.members[1]
             E == EndMatches(stitch, stitch.start_c)
             S == StartMatches(stitch, stitch.start_c)
             open == stitch.segs[new.seg].start # stitch.segs[new.seg].end
         IN  IF E # {} THEN new.seg \in E /\ (open => ~new.rev)
                       ELSE new.seg \in S /\ (open => new.rev)]_vars

\* C24 as the code has it: the backward loop chooses its candidate as the
\* forward loop does.  It takes an unused segment that starts in the
\* chain's start cluster whenever there is one and prepends it reversed
\* (without its last point); it takes an unused segment that ends there,
\* prepended in its own orientation, only when no unused segment starts
\* there.
C24_BackwardPrefersStartMatch ==
    [][stitch.pc = "backward" /\ stitch'.pc = "backward" =>
         LET new == stitch'.members[1]
             coords == stitch.segs[new.seg].coords
             S == StartMatches(stitch, stitch.start_c)
             E == EndMatches(stitch, stitch.start_c)
         IN  /\ Len(stitch'.members) = Len(stitch.members) + 1
             /\ IF S # {}
                THEN /\ new.seg \in S
                     /\ new.rev
                     /\ stitch'.chain = DropLast(Reverse(coords)) \o stitch.chain
                     /\ stitch'.start_c = stitch.segs[new.seg].end
                ELSE /\ new.seg \in E
                     /\ ~new.rev
                     /\ stitch'.chain = DropLast(coords) \o stitch.chain
                     /\ stitch'.start_c = stitch.segs[new.seg].start]_vars

\* Witness of C24: the backward loop has just prepended a start-matching
\* segment reversed while a segment that ends in the same cluster was, and
\* still is, unused.
C24_Witness ==
    /\ stitch.pc = "backward"
    /\ Len(stitch.members) >= 2
    /\ stitch.members[1].seg # stitch.i
    /\ LET new == stitch.members[1]
       IN  /\ new.rev
           /\ \E k \in Unused(stitch) :
                 /\ stitch.segs[k].end = stitch.segs[new.seg].start
                 /\ stitch.segs[k].start # stitch.segs[new.seg].start

\* The seed of a returned chain: its member of lowest index (the seed loop
\* visits the segments in index order, and the members of a chain were all
\* unused when its seed was taken).
SeedOf(ms) ==
    CHOOSE k \in {ms[q].seg : q \in 1..Len(ms)} :
        \A q \in 1..Len(ms) : k <= ms[q].seg

\* C25: a chain whose seed segment starts and ends in the same cluster is
\* that segment alone: the chain returned is exactly the segment's
\* coordinate list.
C25_ClosedSeedEmittedAsIs ==
    stitch.pc = "done" =>
        \A c \in 1..Len(stitch.consumed) :
            LET seed == SeedOf(stitch.consumed[c])
            IN  stitch.segs[seed].start = stitch.segs[seed].end =>
                   /\ stitch.consumed[c] = <<[seg |-> seed, rev |-> FALSE]>>
                   /\ stitch.stitched[c] = stitch.segs[seed].coords

\* C26: the seed of a new chain is the unused segment of lowest index, and it
\* is marked used as the chain is started, before any extension; the seed of
\* a chain being emitted is the chain's member of lowest index and comes
\* after the seed of every chain emitted before, and the first chain emitted
\* is seeded by the first segment.
C26_SeedsInIndexOrder ==
    [][/\ stitch.pc = "seed" /\ stitch'.pc = "forward" =>
            /\ stitch.i \in Unused(stitch)
            /\ \A k \in Unused(stitch) : stitch.i <= k
            /\ Unused(stitch') = Unused(stitch) \ {stitch.i}
            /\ stitch'.i = stitch.i
            /\ stitch'.chain = stitch.segs[stitch.i].coords
            /\ stitch'.members = <<[seg |-> stitch.i, rev |-> FALSE]>>
       /\ stitch.pc = "backward" /\ stitch'.pc = "seed" =>
            /\ stitch'.consumed = Append(stitch.consumed, stitch.members)
            /\ stitch'.stitched = Append(stitch.stitched, stitch.chain)
            /\ stitch.i = SeedOf(stitch.members)
            /\ \A c \in 1..Len(stitch.consumed) :
                  SeedOf(stitch.consumed[c]) < stitch.i
            /\ stitch.consumed = <<>> => stitch.i = 1]_vars

\* Witness of C26: stitch_lines has returned two chains from three
\* segments, the first made of the first and the third segment, the second
\* seeded by the second segment.
C26_Witness ==
    /\ stitch.pc = "done"
    /\ Len(stitch.segs) = 3
    /\ Len(stitch.consumed) = 2
    /\ {stitch.consumed[1][q].seg : q \in 1..Len(stitch.consumed[1])} = {1, 3}
    /\ stitch.consumed[2] = <<[seg |-> 2, rev |-> FALSE]>>

\* The cluster in which a chain of members ms starts, and the one in which
\* it ends.
ChainStart(ms) ==
    IF ms[1].rev THEN stitch.segs[ms[1].seg].end ELSE stitch.segs[ms[1].seg].start

ChainEnd(ms) ==
    IF ms[Len(ms)].rev THEN stitch.segs[ms[Len(ms)].seg].start
    ELSE stitch.segs[ms[Len(ms)].seg].end

Terminals(ms) == {ChainStart(ms), ChainEnd(ms)}

\* C28: the chains are maximal.  When a chain is emitted its terminal
\* clusters are start_c and end_c and no unused segment starts or ends in
\* either of them; hence no unused segment ever touches a terminal cluster
\* of a chain already emitted, and no two chains emitted have a terminal
\* cluster in common.
C28_ChainsAreMaximal ==
    /\ stitch.pc \in {"seed", "forward", "backward", "done"} =>
          /\ \A c \in 1..Len(stitch.consumed) : \A t \in Terminals(stitch.consumed[c]) :
                StartMatches(stitch, t) = {} /\ EndMatches(stitch, t) = {}
          /\ \A c \in 1..Len(stitch.consumed) : \A d \in 1..Len(stitch.consumed) :
                c # d => Terminals(stitch.consumed[c]) \cap Terminals(stitch.consumed[d]) = {}
    /\ stitch.pc \in {"forward", "backward"} =>
          /\ ChainStart(stitch.members) = stitch.start_c
          /\ ChainEnd(stitch.members) = stitch.end_c
    /\ stitch.pc = "backward" =>
          StartMatches(stitch, stitch.end_c) = {} /\ EndMatches(stitch, stitch.end_c) = {}
    /\ stitch.pc = "done" => Unused(stitch) = {}

\* Witness of C28: stitch_lines has returned two chains, one of them merged
\* from two segments that met in a cluster no other chain touches.
C28_Witness ==
    /\ stitch.pc = "done"
    /\ Len(stitch.consumed) = 2
    /\ \E c \in 1..2 : Len(stitch.consumed[c]) = 2
    /\ Cardinality(Terminals(stitch.consumed[1]) \cup Terminals(stitch.consumed[2])) >= 2

\* The points of a line between its two ends.
Interior(l) == SubSeq(l, 2, Len(l) - 1)

\* The input lines that build a segment, in input order.
LongLines == SelectSeq(stitch.lines, LAMBDA l : Len(l) >= 2)

\* Total number of points of the segments.
RECURSIVE SegPoints(_)
SegPoints(k) == IF k = 0 THEN 0 ELSE Len(stitch.segs[k].coords) + SegPoints(k - 1)

\* C30: stitch_lines loses no vertex but the duplicated junction points.  A
\* returned chain of k segments has the segments' points less k - 1; the
\* chains together have the segments' points less (segments - chains); each
\* segment carries the interior vertices of its input line, and they sit in
\* the chain at the segment's place, in the segment's orientation, each
\* segment having exactly one place.
C30_OnlyJunctionsAreDropped ==
    stitch.pc = "done" /\ stitch.lines # <<>> =>
        /\ Len(stitch.segs) = Len(LongLines)
        /\ \A k \in 1..Len(stitch.segs) :
              /\ Len(stitch.segs[k].coords) = Len(LongLines[k])
              /\ Interior(stitch.segs[k].coords) = Interior(LongLines[k])
              /\ Cardinality(PlacesOf(k)) = 1
        /\ \A c \in 1..Len(stitch.consumed) :
              LET ms == stitch.consumed[c]
                  chain == stitch.stitched[c]
              IN  /\ Len(chain) = 1 + EdgesUpTo(ms, Len(ms))
                  /\ \A q \in 1..Len(ms) :
                        LET coords == stitch.segs[ms[q].seg].coords
                            part == SubSeq(chain, 1 + EdgesUpTo(ms, q - 1),
                                           1 + EdgesUpTo(ms, q))
                        IN  Interior(part) = IF ms[q].rev THEN Reverse(Interior(coords))
                                             ELSE Interior(coords)
        /\ SumLen(stitch.stitched)
             = SegPoints(Len(stitch.segs)) - (Len(stitch.segs) - Len(stitch.stitched))

\* Witness of C30: stitch_lines has returned two chains from three
\* segments; one chain is made of two segments, one of them reversed and
\* with interior vertices.
C30_Witness ==
    /\ stitch.pc = "done"
    /\ Len(stitch.segs) = 3
    /\ Len(stitch.stitched) = 2
    /\ \E c \in 1..2 :
         /\ Len(stitch.consumed[c]) = 2
         /\ \E q \in 1..2 :
               /\ stitch.consumed[c][q].rev
               /\ Len(stitch.segs[stitch.consumed[c][q].seg].coords) > 2

(***************************************************************************)
(* Properties of split_line_max_length_meters                              *)
(***************************************************************************)
\* Metric length of a line of integer vertices.
RECURSIVE MetricLen(_)
MetricLen(l) ==
    IF Len(l) < 2 THEN 0
    ELSE Hypot(fwd(l[2])[1] - fwd(l[1])[1], fwd(l[2])[2] - fwd(l[1])[2])
         + MetricLen(Tail(l))

\* C4: every chunk returned for a chain of at least 2 points has metric
\* length at most max_len_m.
C4_ChunksWithinMaxLen ==
    split.pc = "done" /\ Len(split.line) >= 2 =>
        \A k \in 1..Len(split.parts) : MetricLen(split.parts[k]) <= split.max_len_m

\* The chunks glued together, each boundary vertex taken once.
RECURSIVE Glue(_)
Glue(ps) ==
    IF ps = <<>> THEN <<>>
    ELSE IF Len(ps) = 1 THEN ps[1]
    ELSE ps[1] \o DropFirst(Glue(Tail(ps)))

\* C5: the chunks returned for a chain are contiguous (each chunk ends on
\* the vertex the next one starts on) and, glued at those vertices, give
\* back the chain.
C5_ChunksContiguousAndCover ==
    split.pc = "done" /\ Len(split.line) >= 2 =>
        /\ Len(split.parts) >= 1
        /\ \A k \in 1..(Len(split.parts) - 1) :
              split.parts[k][Len(split.parts[k])] = split.parts[k + 1][1]
        /\ Glue(split.parts) = split.line

\* Witness of C5: a chain cut into at least 3 chunks, one of them of more
\* than one edge.
C5_Witness ==
    /\ split.pc = "done"
    /\ Len(split.parts) >= 3
    /\ \E k \in 1..Len(split.parts) : Len(split.parts[k]) >= 3

\* A chain of total metric length 1000 m split with max_len_m = 400 m.
Split1000By400 ==
    /\ split.pc = "done"
    /\ Len(split.line) >= 2
    /\ MetricLen(split.line) = 1000
    /\ split.max_len_m = 400

\* The chain has a vertex every 100 m.
EvenlySpaced100 ==
    \A k \in 2..Len(split.line) : SegLen(split.line, k) = 100

\* C6 as stated: any chain of total length 1000 m split at 400 m gives
\* exactly 3 chunks.
C6_Exactly3Chunks == Split1000By400 => Len(split.parts) = 3

\* C6 as amended: a chain of total length 1000 m split at 400 m gives
\* exactly 3 chunks when its vertices are 100 m apart; whatever the spacing
\* it gives at least 1 and at most 5 chunks.
C6_ChunkCountDependsOnSpacing ==
    Split1000By400 =>
        /\ Len(split.parts) \in 1..5
        /\ EvenlySpaced100 => Len(split.parts) = 3

\* Witness of C6: the chain with a vertex every 100 m has been split into
\* 3 chunks.
C6_Witness == Split1000By400 /\ EvenlySpaced100 /\ Len(split.parts) = 3

\* C19: a chain (2 points or more) whose total metric length is below
\* max_len_m comes back as exactly one chunk, the chain itself.
C19_ShortChainOneChunk ==
    split.pc = "done" /\ Len(split.line) >= 2
    /\ MetricLen(split.line) < split.max_len_m
        => split.parts = <<split.line>>

\* Witness of C19: a chain of 3 edges, shorter than max_len_m, has come back
\* whole.
C19_Witness ==
    /\ split.pc = "done"
    /\ Len(split.line) = 4
    /\ MetricLen(split.line) < split.max_len_m
    /\ split.parts = <<split.line>>

(***************************************************************************)
(* Properties of lines_to_feature_collection_with_bboxes                   *)
(***************************************************************************)
RatLeq(a, b) == a[1] * b[2] <= b[1] * a[2]

\* v is the value of an element of xs and no element of xs is smaller.
IsLeast(v, xs) ==
    /\ \E k \in 1..Len(xs) : RatLeq(v, xs[k]) /\ RatLeq(xs[k], v)
    /\ \A k \in 1..Len(xs) : RatLeq(v, xs[k])

\* v is the value of an element of xs and no element of xs is larger.
IsGreatest(v, xs) ==
    /\ \E k \in 1..Len(xs) : RatLeq(v, xs[k]) /\ RatLeq(xs[k], v)
    /\ \A k \in 1..Len(xs) : RatLeq(xs[k], v)

\* C8: the bbox of every emitted feature is (min lon, min lat, max lon,
\* max lat) over the coordinates of the feature's own geometry.
C8_BBoxOfOwnCoordinates ==
    emit.pc # "idle" =>
        \A k \in 1..Len(emit.features) :
            LET f == emit.features[k]
            IN  /\ Len(f.bbox) = 4
                /\ IsLeast(f.bbox[1], Lons(f.coordinates))
                /\ IsLeast(f.bbox[2], Lats(f.coordinates))
                /\ IsGreatest(f.bbox[3], Lons(f.coordinates))
                /\ IsGreatest(f.bbox[4], Lats(f.coordinates))

\* Witness of C8: a feature whose box is wider and taller than the box of
\* its two end vertices.
C8_Witness ==
    /\ emit.pc = "done"
    /\ \E k \in 1..Len(emit.features) :
         LET f == emit.features[k]
             n == Len(f.coordinates)
         IN  /\ n = 3
             /\ RatLess(Lats(f.coordinates)[1], f.bbox[4])
             /\ RatLess(Lats(f.coordinates)[n], f.bbox[4])
             /\ RatLess(f.bbox[1], Lons(f.coordinates)[1])
             /\ RatLess(f.bbox[1], Lons(f.coordinates)[n])

MeetsBox(line, c) ==
    /\ line # <<>>
    /\ \E k \in 1..Len(line) : RatLeq(c.lon_min, Lons(line)[k])
    /\ \E k \in 1..Len(line) : RatLeq(Lons(line)[k], c.lon_max)
    /\ \E k \in 1..Len(line) : RatLeq(c.lat_min, Lats(line)[k])
    /\ \E k \in 1..Len(line) : RatLeq(Lats(line)[k], c.lat_max)

RECURSIVE LinesMeetingBox(_, _)
LinesMeetingBox(lines, c) ==
    IF lines = <<>> THEN <<>>
    ELSE (IF MeetsBox(Head(lines), c) THEN <<Head(lines)>> ELSE <<>>)
         \o LinesMeetingBox(Tail(lines), c)

\* C9: clip_lines_to_bbox returns exactly the input lines whose bounding
\* box meets the query box, in input order and vertex for vertex as given.
C9_ClipKeepsLinesMeetingBox ==
    clip.pc = "done" => clip.kept = LinesMeetingBox(clip.lines, clip)

\* The vertex lies inside the query box.
InBox(p, c) ==
    /\ RatLeq(c.lon_min, <<p[1], p[3]>>) /\ RatLeq(<<p[1], p[3]>>, c.lon_max)
    /\ RatLeq(c.lat_min, <<p[2], p[3]>>) /\ RatLeq(<<p[2], p[3]>>, c.lat_max)

\* Witness of C9: of two lines one was dropped and the other kept, the kept
\* one having no vertex inside the (well-formed) query box.
C9_Witness ==
    /\ clip.pc = "done"
    /\ RatLeq(clip.lon_min, clip.lon_max)
    /\ RatLeq(clip.lat_min, clip.lat_max)
    /\ Len(clip.lines) = 2
    /\ \A k \in 1..2 : clip.lines[k] # <<>>
    /\ Len(clip.kept) = 1
    /\ Len(clip.kept[1]) = 3
    /\ \A k \in 1..3 : ~InBox(clip.kept[1][k], clip)

(***************************************************************************)
(* Properties of simplify_line_meters                                      *)
(***************************************************************************)
\* The largest member of K below k.
LastBefore(K, k) == CHOOSE j \in K : j < k /\ \A z \in K : z < k => z <= j

\* The points of line at the positions K, in order.
PointsAt(line, K) ==
    [q \in 1..Cardinality(K) |->
        line[CHOOSE k \in K : Cardinality({z \in K : z < k}) = q - 1]]

\* K holds the first and the last position, and an interior position k
\* exactly when point k is at least tol away from the point at the nearest
\* position of K before k.
KeepRule(line, tol, K) ==
    /\ 1 \in K
    /\ Len(line) \in K
    /\ \A k \in 2..(Len(line) - 1) :
         k \in K <=>
           SqDist(<<ProjX(line, k), ProjY(line, k)>>,
                  <<ProjX(line, LastBefore(K, k)), ProjY(line, LastBefore(K, k))>>)
             >= tol * tol

\* The 5 colinear points at x = 0, 1, 2, 3, 4 m.
FivePoints == [k \in 1..5 |-> LonLatAt(k - 1, 0)]

C29_SimplifyIdempotent ==
    simplify.pc = "done" =>
        /\ simplify_line_meters(simplify.out, simplify.tolerance_m) = simplify.out
        /\ \E K \in SUBSET (1..Len(simplify.line)) :
              simplify.out = PointsAt(simplify.line, K)
        /\ simplify.out[1] = simplify.line[1]
        /\ simplify.out[Len(simplify.out)] = simplify.line[Len(simplify.line)]
        /\ Len(simplify.line) >= 2 => Len(simplify.out) >= 2

\* Witness of C29: a line of 5 points that turns back on itself has been
\* thinned to 4 points: one interior point was left out, two were kept.
C29_Witness ==
    /\ simplify.pc = "done"
    /\ Len(simplify.line) = 5
    /\ Len(simplify.out) = 4
    /\ ProjX(simplify.line, 3) < ProjX(simplify.line, 2)

(***************************************************************************)
(* Properties of filter_lines_min_length_meters                            *)
(***************************************************************************)
\* C15: filter_lines_min_length_meters returns, in input order, exactly the
\* input lines whose metric length is not below min_len_m, so every line it
\* returns has length >= min_len_m.
C15_FilterKeepsLongEnough ==
    filter.pc = "done" =>
        /\ filter.out
             = SelectSeq(filter.lines, LAMBDA l : MetricLen(l) >= filter.min_len_m)
        /\ \A k \in 1..Len(filter.out) : MetricLen(filter.out[k]) >= filter.min_len_m

\* Witness of C15: with a positive threshold, a line of exactly that length
\* was kept and a shorter line of 2 points or more was dropped.
C15_Witness ==
    /\ filter.pc = "done"
    /\ filter.min_len_m > 0
    /\ \E k \in 1..Len(filter.out) : MetricLen(filter.out[k]) = filter.min_len_m
    /\ \E k \in 1..Len(filter.lines) :
         /\ Len(filter.lines[k]) >= 2
         /\ MetricLen(filter.lines[k]) < filter.min_len_m
    /\ Len(filter.out) < Len(filter.lines)

(***************************************************************************)
(* Properties of iter_lines_from_geojson                                   *)
(***************************************************************************)
\* The polylines of the features, in order: the coordinates of a LineString,
\* each member of a MultiLineString, nothing for any other feature.
RECURSIVE Polylines(_)
Polylines(features) ==
    IF features = <<>> THEN <<>>
    ELSE (CASE Head(features).gtype = "LineString" -> <<Head(features).coords>>
            [] Head(features).gtype = "MultiLineString" -> Head(features).members
            [] OTHER -> <<>>)
         \o Polylines(Tail(features))

\* C20: iter_lines_from_geojson yields, in input order, exactly the
\* polylines of at least 2 positions, each as its (lon, lat) pairs; shorter
\* polylines are skipped and the others are yielded all the same.
C20_YieldsPolylinesOfTwoOrMore ==
    ingest.pc = "done" =>
        LET fs == IF "features" \in DOMAIN ingest.obj THEN ingest.obj.features
                  ELSE <<>>
            long == SelectSeq(Polylines(fs), LAMBDA c : Len(c) >= 2)
        IN  /\ Len(ingest.out) = Len(long)
            /\ \A k \in 1..Len(long) :
                  /\ Len(ingest.out[k]) = Len(long[k])
                  /\ \A q \in 1..Len(long[k]) :
                        ingest.out[k][q] = <<long[k][q][1], long[k][q][2], 1>>

\* Witness of C20: a MultiLineString with a member of one position between
\* or beside members that were yielded, and a LineString yielded as well.
C20_Witness ==
    /\ ingest.pc = "done"
    /\ Len(ingest.out) >= 2
    /\ \E k \in 1..Len(ingest.obj.features) :
         LET f == ingest.obj.features[k]
         IN  /\ f.gtype = "MultiLineString"
             /\ Len(f.members) = 2
             /\ Len(f.members[1]) = 1
             /\ Len(f.members[2]) >= 2
    /\ \E k \in 1..Len(ingest.obj.features) :
         /\ ingest.obj.features[k].gtype = "LineString"
         /\ Len(ingest.obj.features[k].coords) >= 2

(***************************************************************************)
(* Properties of main                                                      *)
(***************************************************************************)
\* The lines the named stage returned (the stage has run).
StageOut(name) ==
    main.stages[CHOOSE s \in 1..Len(main.stages) : main.stages[s].stage = name].lines

HasRun(name) == \E s \in 1..Len(main.stages) : main.stages[s].stage = name

\* C11: in a run of either script every line returned by the ingestion and
\* by every stage after it (bbox filter, simplifier, stitcher, splitter,
\* length filter) has at least 2 points, whatever the parameters, and so
\* has the geometry of every feature build_viewer_coastline emits.
C11_EveryLineHasTwoPoints ==
    main.pc # "idle" =>
        /\ \A s \in 1..Len(main.stages) : \A k \in 1..Len(main.stages[s].lines) :
              Len(main.stages[s].lines[k]) >= 2
        /\ \A k \in 1..Len(main.lines) : Len(main.lines[k]) >= 2
        /\ main.tool = BuildTool /\ main.pc \in {"save", "returned"} =>
              \A k \in 1..Len(main.out.features) :
                  Len(main.out.features[k].coordinates) >= 2

\* Witness of C11: a build run has written 2 features after the simplifier
\* dropped a point, the stitcher joined two lines and the splitter cut the
\* chain.
C11_Witness ==
    /\ main.tool = BuildTool
    /\ main.status = "exit0"
    /\ Len(main.written[1].features) = 2
    /\ \E k \in 1..Len(StageOut("simplify")) :
          Len(StageOut("simplify")[k]) < Len(StageOut("clip")[k])
    /\ Len(StageOut("stitch")) < Len(StageOut("simplify"))
    /\ Len(StageOut("split")) > Len(StageOut("stitch"))

\* C13: a build run whose projection reference code pyproj rejects never
\* returns 0 and never writes the output file, whatever the input.
C13_InvalidEpsgNeverCompletes ==
    main.pc # "idle" /\ main.tool = BuildTool /\ ~main.epsg_ok =>
        main.status # "exit0" /\ main.written = <<>>

\* C14: a bbox that does not have exactly 4 components ends the run in an
\* error before any stage has run, the loading of the input included, and
\* no output file is written.
C14_BadBBoxBeforeLoad ==
    main.pc # "idle" /\ Len(main.bbox) # 4 =>
        /\ main.stages = <<>>
        /\ main.written = <<>>
        /\ main.status \in {"running", "ValueError"}
        /\ main.pc = "raised" => main.status = "ValueError"

\* What both scripts do guarantee on such a bbox: the run ends in a
\* ValueError before the clip and every later stage, and no output file is
\* written; build_viewer_coastline raises it before the input is loaded,
\* simplify_coastline once the input has been loaded and ingested.
BadBBoxBeforeClip ==
    main.pc # "idle" /\ Len(main.bbox) # 4 =>
        /\ \A s \in 1..Len(main.stages) : main.stages[s].stage = "ingest"
        /\ main.tool = BuildTool => main.stages = <<>>
        /\ main.written = <<>>
        /\ main.status \in {"running", "ValueError"}
        /\ main.pc \in {"load", "parse_bbox", "raised"}
        /\ main.pc = "raised" => main.status = "ValueError"

(***************************************************************************)
(* The two forms of each stage agree: what the step-by-step activation     *)
(* returns is what the operator main uses gives for the same arguments.    *)
(***************************************************************************)
ClipFormsAgree ==
    clip.pc = "done" =>
        clip.kept = clip_lines_to_bbox(clip.lines, clip.lon_min, clip.lat_min,
                                       clip.lon_max, clip.lat_max)

SimplifyFormsAgree ==
    simplify.pc = "done" =>
        simplify.out = simplify_line_meters(simplify.line, simplify.tolerance_m)

SplitFormsAgree ==
    split.pc = "done" =>
        split.parts = split_line_max_length_meters(split.line, split.max_len_m)

EmitFormsAgree ==
    emit.pc = "done" =>
        emit.features = FeatureLoop(emit.lines, 1, emit.source_name, <<>>)

StitchFormsAgree ==
    stitch.pc = "seed" /\ stitch.i = 1 /\ stitch.stitched = <<>> /\ main.pc = "idle" =>
        \E b \in {BuildLoop(stitch.lines, 1, NewClusterer(clusterer.tol), <<>>, <<>>)} :
            /\ clusterer = b.cl
            /\ calls = b.calls
            /\ stitch = AtSeedLoop(stitch.lines, b)

====
